---- MODULE Spec2Model ----
(***************************************************************************)
(* Retrieval-and-selection pipeline of rag-repo-assistant: the context     *)
(* selectors of the ask and eval scripts (low-signal filter, section       *)
(* dedup, per-file cap, fallback ladder), the keyword intent router and    *)
(* routed-first retrieval over the SQLite similarity store.                *)
(*                                                                         *)
(* Strings are sequences of one-character strings (queries, section        *)
(* paths), sequences of path tokens (source paths, route prefixes) or      *)
(* run-length encoded sequences of character runs (chunk texts).           *)
(***************************************************************************)
EXTENDS Integers, Sequences, FiniteSets, TLC

VARIABLES
    pc,          \* which operation has run in this behaviour
    candidates,  \* the candidate list handed to a selector
    opts,        \* the selection options
    selected,    \* the final selection
    rung,        \* the rung of the fallback ladder that produced it
    query,       \* the query text
    plan,        \* the route plan inferred for it
    store,       \* the rows of the chunks table, in scan order
    topK,        \* --topK
    retrieved,   \* the results of retrieveWithRouting
    contrib,     \* for each result, the fetch that pushed it (history)
    request,     \* the parameters of the last search call
    writers,     \* for each writer, the state of its upsert transaction
    latest,      \* for each chunk id, its most recent committed upsert (history)
    sim,         \* the two vectors of a cosine call and the value returned
    cases,       \* the evaluation cases loaded from the dataset
    total,       \* the evaluator's count of cases started
    hits,        \* for each k of the evaluator, the cases with a hit in the top k
    text,        \* the text handed to truncateText
    maxChars,    \* its maxChars argument
    rendered     \* what truncateText returned

selVars == <<candidates, opts, selected, rung>>

routeVars == <<query, plan>>

retVars == <<store, topK, retrieved, contrib>>

stoVars == <<request, writers, latest, sim>>

evalVars == <<cases, total, hits>>

renderVars == <<text, maxChars, rendered>>

auxVars == <<evalVars, renderVars>>

vars == <<pc, candidates, opts, selected, rung, query, plan, store, topK,
          retrieved, contrib, request, writers, latest, sim, cases, total, hits,
          text, maxChars, rendered>>

----------------------------------------------------------------------------
(* Bounds of the model.                                                    *)

MaxCands == 2
MaxChunksBound == 2
MaxPerFileBound == 1
MaxQueryWords == 2
MaxRows == 3
MaxTopK == 2

\* the bits of a floating-point significand
SignificandBits == 4

\* the longest embedding vector of the cosine specification
MaxDim == 3

\* the largest pool handed to mmrSelect
MaxPool == 3

----------------------------------------------------------------------------
(* Generic helpers with the semantics of the JavaScript built-ins used.    *)

Min(a, b) == IF a <= b THEN a ELSE b

Max(a, b) == IF a >= b THEN a ELSE b

\* Array.prototype.slice(start, end) for integer arguments: a negative
\* index counts from the end, both are clamped to [0, length].
Slice(s, start, end) ==
    LET n == Len(s)
        from == IF start < 0 THEN Max(n + start, 0) ELSE Min(start, n)
        to == IF end < 0 THEN Max(n + end, 0) ELSE Min(end, n)
    IN  IF from >= to THEN << >> ELSE SubSeq(s, from + 1, to)

\* String.prototype.startsWith on sequences of characters or path tokens.
StartsWith(s, p) ==
    /\ Len(p) <= Len(s)
    /\ \A i \in 1..Len(p) : s[i] = p[i]

\* String.prototype.includes: w occurs in s as a contiguous substring.
Includes(s, w) ==
    \E i \in 0..(Len(s) - Len(w)) : \A j \in 1..Len(w) : s[i + j] = w[j]

UpperChars ==
    <<"A","B","C","D","E","F","G","H","I","J","K","L","M",
      "N","O","P","Q","R","S","T","U","V","W","X","Y","Z">>

LowerChars ==
    <<"a","b","c","d","e","f","g","h","i","j","k","l","m",
      "n","o","p","q","r","s","t","u","v","w","x","y","z">>

ToLowerChar(c) ==
    IF \E i \in 1..Len(UpperChars) : UpperChars[i] = c
    THEN LowerChars[CHOOSE i \in 1..Len(UpperChars) : UpperChars[i] = c]
    ELSE c

\* String.prototype.toLowerCase, character by character.
ToLowerCase(s) == [i \in 1..Len(s) |-> ToLowerChar(s[i])]

----------------------------------------------------------------------------
(* Chunk text: a sequence of runs [ws, n], n >= 1 code units that are all  *)
(* whitespace (ws) or all non-whitespace, adjacent runs alternating.       *)

RECURSIVE TextLength(_)
TextLength(t) == IF t = << >> THEN 0 ELSE t[1].n + TextLength(Tail(t))

RECURSIVE TrimStart(_)
TrimStart(t) ==
    IF t # << >> /\ t[1].ws THEN TrimStart(Tail(t)) ELSE t

RECURSIVE TrimEnd(_)
TrimEnd(t) ==
    IF t # << >> /\ t[Len(t)].ws THEN TrimEnd(SubSeq(t, 1, Len(t) - 1)) ELSE t

\* String.prototype.trim.
Trim(t) == TrimEnd(TrimStart(t))

----------------------------------------------------------------------------
(* Selection of the ask pipeline (priority keep + priority boost).         *)

StatusWord == <<"s","t","a","t","u","s">>

\* md.sectionPath ?? ""
SectionOrEmpty(r) == IF r.hasSection THEN r.sectionPath ELSE << >>

isPrioritySource(sourcePath, priorityPrefixes) ==
    \E i \in 1..Len(priorityPrefixes) : StartsWith(sourcePath, priorityPrefixes[i])

TextTooShort(r, minChars) == TextLength(Trim(r.text)) < minChars

IsStatusSection(r) == Includes(ToLowerCase(SectionOrEmpty(r)), StatusWord)

isLowSignalChunk(r, o) ==
    IF isPrioritySource(r.sourcePath, o.priorityPrefixes) THEN FALSE
    ELSE IF TextTooShort(r, o.minChars) THEN TRUE
    ELSE IF o.dropStatus /\ IsStatusSection(r) THEN TRUE
    ELSE FALSE

\* a key that tells two chunks of one section apart
DedupKeyPerChunk(r) == <<r.sourcePath, SectionOrEmpty(r), r.text>>

\* `${file}::${sectionKey}`
DedupKey(r) == <<r.sourcePath, SectionOrEmpty(r)>>

\* perFileCount.get(file) ?? 0, perFileCount being the multiset of the
\* files counted so far
FileCount(perFileCount, file) ==
    Cardinality({i \in 1..Len(perFileCount) : perFileCount[i] = file})

\* the cap tested one item too late
CapReachedOffByOne(count, maxPerFile) == count > maxPerFile

CapReached(count, maxPerFile) == count >= maxPerFile

EnoughChunks(n, maxChunks) == n >= maxChunks

\* The loop of assembleContextFromCandidates from candidate i on.
RECURSIVE AssembleLoop(_, _, _, _, _, _)
AssembleLoop(cands, i, o, perFileCount, seen, sel) ==
    IF i > Len(cands) THEN sel
    ELSE
      LET r == cands[i]
          file == r.sourcePath
          isPriority == isPrioritySource(file, o.priorityPrefixes)
      IN  IF isLowSignalChunk(r, o)
          THEN AssembleLoop(cands, i + 1, o, perFileCount, seen, sel)
          ELSE IF DedupKey(r) \in seen
          THEN AssembleLoop(cands, i + 1, o, perFileCount, seen, sel)
          ELSE IF ~isPriority /\ CapReached(FileCount(perFileCount, file), o.maxPerFile)
          THEN AssembleLoop(cands, i + 1, o, perFileCount,
                            seen \cup {DedupKey(r)}, sel)
          ELSE
            LET counted == IF isPriority THEN perFileCount
                           ELSE Append(perFileCount, file)
                sel2 == Append(sel, r)
            IN  IF EnoughChunks(Len(sel2), o.maxChunks) THEN sel2
                ELSE AssembleLoop(cands, i + 1, o, counted,
                                  seen \cup {DedupKey(r)}, sel2)

assembleContextFromCandidates(cands, o) ==
    AssembleLoop(cands, 1, o, << >>, {}, << >>)

RelaxedMinChars == 60

\* The options of the relaxed retry.
RelaxedOpts(o) ==
    [o EXCEPT !.minChars = Min(o.minChars, RelaxedMinChars), !.dropStatus = FALSE]

\* a ladder without its last rung
RawFallbackNone(cands, o) == << >>

\* a raw fallback one candidate short
RawFallbackOffByOne(cands, o) == Slice(cands, 0, o.maxChunks - 1)

\* slice(0, maxChunks) of the candidates
RawFallback(cands, o) == Slice(cands, 0, o.maxChunks)

\* The selection of the ask script with its fallback ladder.
AskLadder(cands, o) ==
    LET first == assembleContextFromCandidates(cands, o)
        second == assembleContextFromCandidates(cands, RelaxedOpts(o))
    IN  IF Len(first) # 0 THEN [selected |-> first, rung |-> "primary"]
        ELSE IF Len(second) # 0 THEN [selected |-> second, rung |-> "relaxed"]
        ELSE [selected |-> RawFallback(cands, o), rung |-> "raw"]

----------------------------------------------------------------------------
(* Selection of the eval script.                                           *)

\* The loop of selectForContext from candidate i on: the per-file cap is
\* applied to every source.
RECURSIVE SelectLoop(_, _, _, _, _, _)
SelectLoop(cands, i, o, perFileCount, seen, sel) ==
    IF i > Len(cands) THEN sel
    ELSE
      LET r == cands[i]
          file == r.sourcePath
      IN  IF isLowSignalChunk(r, o)
          THEN SelectLoop(cands, i + 1, o, perFileCount, seen, sel)
          ELSE IF DedupKey(r) \in seen
          THEN SelectLoop(cands, i + 1, o, perFileCount, seen, sel)
          ELSE IF CapReached(FileCount(perFileCount, file), o.maxPerFile)
          THEN SelectLoop(cands, i + 1, o, perFileCount,
                          seen \cup {DedupKey(r)}, sel)
          ELSE
            LET sel2 == Append(sel, r)
            IN  IF EnoughChunks(Len(sel2), o.maxChunks) THEN sel2
                ELSE SelectLoop(cands, i + 1, o, Append(perFileCount, file),
                                seen \cup {DedupKey(r)}, sel2)

selectForContext(cands, o) == SelectLoop(cands, 1, o, << >>, {}, << >>)

\* The selection of the eval script with its fallback ladder.
EvalLadder(cands, o) ==
    LET first == selectForContext(cands, o)
        second == selectForContext(cands, RelaxedOpts(o))
    IN  IF Len(first) # 0 THEN [selected |-> first, rung |-> "primary"]
        ELSE IF Len(second) # 0 THEN [selected |-> second, rung |-> "relaxed"]
        ELSE [selected |-> RawFallback(cands, o), rung |-> "raw"]

----------------------------------------------------------------------------
(* Selection of the first ask script (no routing, no ladder).              *)

isLowSignalChunkUnrouted(r, o) ==
    IF TextTooShort(r, o.minChars) THEN TRUE
    ELSE IF o.dropStatus /\ IsStatusSection(r) THEN TRUE
    ELSE FALSE

RECURSIVE UnroutedLoop(_, _, _, _, _, _)
UnroutedLoop(cands, i, o, perFileCount, seen, sel) ==
    IF i > Len(cands) THEN sel
    ELSE
      LET r == cands[i]
          file == r.sourcePath
      IN  IF isLowSignalChunkUnrouted(r, o)
          THEN UnroutedLoop(cands, i + 1, o, perFileCount, seen, sel)
          ELSE IF DedupKey(r) \in seen
          THEN UnroutedLoop(cands, i + 1, o, perFileCount, seen, sel)
          ELSE IF CapReached(FileCount(perFileCount, file), o.maxPerFile)
          THEN UnroutedLoop(cands, i + 1, o, perFileCount,
                            seen \cup {DedupKey(r)}, sel)
          ELSE
            LET sel2 == Append(sel, r)
            IN  IF EnoughChunks(Len(sel2), o.maxChunks) THEN sel2
                ELSE UnroutedLoop(cands, i + 1, o, Append(perFileCount, file),
                                  seen \cup {DedupKey(r)}, sel2)

assembleContext(cands, o) == UnroutedLoop(cands, 1, o, << >>, {}, << >>)

----------------------------------------------------------------------------
(* The inputs of the selection specification.                              *)

AdrPrefix == <<"apps", "/", "docs", "/", "app", "/", "adr", "/">>

ReadmePrefix == <<"README.md">>

\* a file the migrations route vouches for, and one no route names
AdrMigrationsPath == AdrPrefix \o <<"0001-migrations.md">>

NotesPath == <<"src", "/", "notes.md">>

SourcePaths == {AdrMigrationsPath, NotesPath}

SectionStatus == <<"S","t","a","t","u","s">>

SectionIntro == <<"I","n","t","r","o">>

Sections ==
    { [hasSection |-> FALSE, sectionPath |-> << >>],
      [hasSection |-> TRUE, sectionPath |-> SectionStatus],
      [hasSection |-> TRUE, sectionPath |-> SectionIntro] }

\* 10 characters, below both thresholds of --minChars 120; and 117
\* characters inside 2 + 2 of whitespace: 121 code units, below 120 only
\* once trimmed, above the relaxed threshold
TextShort == <<[ws |-> FALSE, n |-> 10]>>

TextPadded == <<[ws |-> TRUE, n |-> 2], [ws |-> FALSE, n |-> 117], [ws |-> TRUE, n |-> 2]>>

Texts == {TextShort, TextPadded}

CandidateItems ==
    { [sourcePath |-> p, hasSection |-> s.hasSection, sectionPath |-> s.sectionPath,
       text |-> t] : p \in SourcePaths, s \in Sections, t \in Texts }

CandidateLists == UNION { [1..n -> CandidateItems] : n \in 0..MaxCands }

\* the default of --minChars, and a value below the relaxed threshold
DefaultMinChars == 120

SmallMinChars == 5

SelectionOptions ==
    [ maxChunks : 0..MaxChunksBound,
      maxPerFile : 0..MaxPerFileBound,
      minChars : {SmallMinChars, DefaultMinChars},
      dropStatus : BOOLEAN,
      priorityPrefixes : {<< >>, <<AdrPrefix, ReadmePrefix>>} ]

----------------------------------------------------------------------------
(* The selection specification: any candidate list and options, then one   *)
(* of the three selectors.                                                 *)

NoPlan == [intent |-> "none", prefixes |-> << >>]

NoOptions ==
    [maxChunks |-> 0, maxPerFile |-> 0, minChars |-> 0, dropStatus |-> FALSE,
     priorityPrefixes |-> << >>]

SelectionIdle ==
    /\ candidates = << >>
    /\ opts = NoOptions
    /\ selected = << >>
    /\ rung = "none"

RouteIdle ==
    /\ query = << >>
    /\ plan = NoPlan

RetrievalIdle ==
    /\ store = << >>
    /\ topK = 0
    /\ retrieved = << >>
    /\ contrib = << >>

NoRequest ==
    [collections |-> {}, queryVector |-> << >>, topK |-> 0, hasFilter |-> FALSE,
     filter |-> [hasTypes |-> FALSE, allowedSourceTypes |-> << >>,
                 hasPrefix |-> FALSE, sourcePathPrefix |-> << >>],
     includeVectors |-> FALSE]

NoSim == [a |-> << >>, b |-> << >>, value |-> [num |-> 0, den |-> 1]]

StoreIdle ==
    /\ request = NoRequest
    /\ writers = << >>
    /\ latest = << >>
    /\ sim = NoSim

NoText == << >>

EvalIdle ==
    /\ cases = << >>
    /\ total = 0
    /\ hits = << >>

RenderIdle ==
    /\ text = NoText
    /\ maxChars = 0
    /\ rendered = NoText

AuxIdle == EvalIdle /\ RenderIdle

InitSelect ==
    /\ pc = "input"
    /\ AuxIdle
    /\ candidates \in CandidateLists
    /\ opts \in SelectionOptions
    /\ selected = << >>
    /\ rung = "none"
    /\ RouteIdle
    /\ RetrievalIdle
    /\ StoreIdle

AskSelect ==
    /\ pc = "input"
    /\ pc' = "ask"
    /\ selected' = AskLadder(candidates, opts).selected
    /\ rung' = AskLadder(candidates, opts).rung
    /\ UNCHANGED <<candidates, opts, routeVars, retVars, stoVars, auxVars>>

EvalSelect ==
    /\ pc = "input"
    /\ pc' = "eval"
    /\ selected' = EvalLadder(candidates, opts).selected
    /\ rung' = EvalLadder(candidates, opts).rung
    /\ UNCHANGED <<candidates, opts, routeVars, retVars, stoVars, auxVars>>

UnroutedSelect ==
    /\ pc = "input"
    /\ pc' = "unrouted"
    /\ selected' = assembleContext(candidates, opts)
    /\ rung' = "primary"
    /\ UNCHANGED <<candidates, opts, routeVars, retVars, stoVars, auxVars>>

NextSelect == AskSelect \/ EvalSelect \/ UnroutedSelect

SpecSelect == InitSelect /\ [][NextSelect]_vars

----------------------------------------------------------------------------
(* Intent routing.  Prefixes are source paths, sequences of path tokens.   *)

ApiReadmePrefix == <<"apps", "/", "api", "/", "README.md">>

DocsReadmePrefix == <<"apps", "/", "docs", "/", "README.md">>

OpenApiAdrPrefix == AdrPrefix \o <<"0002-fastify-typebox-openapi.md">>

\* const hasAny = (words) => words.some((w) => q.includes(w))
hasAny(q, words) == \E w \in words : Includes(q, w)

(* The keyword lists of the ask script. *)

AskTestsWords ==
    { <<"i","n","t","e","g","r","a","t","i","o","n"," ","t","e","s","t">>,
      <<"i","n","t","e","g","r","a","t","i","o","n"," ","t","e","s","t","s">>,
      <<"v","i","t","e","s","t">>,
      <<"t","e","s","t",":","d","b">>,
      <<"p","n","p","m"," ","t","e","s","t">>,
      <<"r","u","n"," ","t","h","e"," ","i","n","t","e","g","r","a","t","i","o","n"," ","t","e","s","t","s">>,
      <<"r","u","n"," ","i","n","t","e","g","r","a","t","i","o","n"," ","t","e","s","t","s">>,
      <<"r","u","n"," ","t","e","s","t","s">>,
      <<"h","o","w"," ","d","o"," ","i"," ","r","u","n"," ","t","h","e"," ","t","e","s","t","s">>,
      <<"h","o","w"," ","d","o"," ","i"," ","r","u","n"," ","i","n","t","e","g","r","a","t","i","o","n"," ","t","e","s","t","s">>,
      <<"h","o","w"," ","d","o"," ","i"," ","r","u","n"," ","t","h","e"," ","i","n","t","e","g","r","a","t","i","o","n"," ","t","e","s","t">> }

AskDbWords ==
    { <<"d","a","t","a","b","a","s","e">>,
      <<"p","o","s","t","g","r","e","s">>,
      <<"p","o","s","t","g","r","e","s","q","l">>,
      <<"p","g"," ","p","o","o","l">>,
      <<"p","o","o","l">>,
      <<"c","o","n","n","e","c","t","i","o","n">>,
      <<"c","o","n","n","e","c","t">>,
      <<"a","c","c","e","s","s"," ","t","h","e"," ","d","a","t","a","b","a","s","e">>,
      <<"d","b"," ","a","c","c","e","s","s">> }

AskAuthWords ==
    { <<"a","u","t","h","e","n","t","i","c","a","t","i","o","n">>,
      <<"a","u","t","h">>,
      <<"x","-","u","s","e","r","-","i","d">>,
      <<"j","w","t">>,
      <<"o","a","u","t","h">>,
      <<"c","o","g","n","i","t","o">> }

AskOpenApiWords ==
    { <<"o","p","e","n","a","p","i">>,
      <<"s","w","a","g","g","e","r">>,
      <<"t","y","p","e","b","o","x">> }

AskMigrationsWords ==
    { <<"m","i","g","r","a","t","i","o","n">>,
      <<"m","i","g","r","a","t","i","o","n","s">>,
      <<"m","i","g","r","a","t","e">>,
      <<"m","i","g","r","a","t","i","n","g">>,
      <<"d","a","t","a","b","a","s","e"," ","m","i","g","r","a","t","i","o","n","s">>,
      <<"m","i","g","r","a","t","i","o","n","s"," ","h","a","n","d","l","e","d">>,
      <<"h","o","w"," ","a","r","e"," ","d","a","t","a","b","a","s","e"," ","m","i","g","r","a","t","i","o","n","s"," ","h","a","n","d","l","e","d">>,
      <<"s","c","h","e","m","a"," ","c","h","a","n","g","e","s">>,
      <<"s","c","h","e","m","a"," ","c","h","a","n","g","e">>,
      <<"d","d","l">>,
      <<"s","q","l","-","f","i","r","s","t">>,
      <<"s","q","l"," ","f","i","l","e","s">>,
      <<"a","p","p","l","y"," ","m","i","g","r","a","t","i","o","n","s">> }


\* the db test moved before the migrations test
AskDispatchDbFirst(isTests, isMigrations, isOpenApi, isAuth, isDb) ==
    IF isTests THEN [intent |-> "tests", prefixes |-> <<ApiReadmePrefix>>]
    ELSE IF isDb
    THEN [intent |-> "db", prefixes |-> <<ReadmePrefix, ApiReadmePrefix>>]
    ELSE IF isMigrations
    THEN [intent |-> "migrations", prefixes |-> <<AdrPrefix, ReadmePrefix>>]
    ELSE IF isOpenApi
    THEN [intent |-> "openapi", prefixes |-> <<ApiReadmePrefix, OpenApiAdrPrefix>>]
    ELSE IF isAuth
    THEN [intent |-> "auth", prefixes |-> <<ApiReadmePrefix, ReadmePrefix>>]
    ELSE [intent |-> "general", prefixes |-> << >>]

\* an auth plan that lost its prefixes
AskDispatchAuthUnrouted(isTests, isMigrations, isOpenApi, isAuth, isDb) ==
    IF isTests THEN [intent |-> "tests", prefixes |-> <<ApiReadmePrefix>>]
    ELSE IF isMigrations
    THEN [intent |-> "migrations", prefixes |-> <<AdrPrefix, ReadmePrefix>>]
    ELSE IF isOpenApi
    THEN [intent |-> "openapi", prefixes |-> <<ApiReadmePrefix, OpenApiAdrPrefix>>]
    ELSE IF isAuth
    THEN [intent |-> "auth", prefixes |-> << >>]
    ELSE IF isDb
    THEN [intent |-> "db", prefixes |-> <<ReadmePrefix, ApiReadmePrefix>>]
    ELSE [intent |-> "general", prefixes |-> << >>]

\* the chain of returns of the ask script's inferRoutePlan
AskDispatch(isTests, isMigrations, isOpenApi, isAuth, isDb) ==
    IF isTests THEN [intent |-> "tests", prefixes |-> <<ApiReadmePrefix>>]
    ELSE IF isMigrations
    THEN [intent |-> "migrations", prefixes |-> <<AdrPrefix, ReadmePrefix>>]
    ELSE IF isOpenApi
    THEN [intent |-> "openapi", prefixes |-> <<ApiReadmePrefix, OpenApiAdrPrefix>>]
    ELSE IF isAuth
    THEN [intent |-> "auth", prefixes |-> <<ApiReadmePrefix, ReadmePrefix>>]
    ELSE IF isDb
    THEN [intent |-> "db", prefixes |-> <<ReadmePrefix, ApiReadmePrefix>>]
    ELSE [intent |-> "general", prefixes |-> << >>]

inferRoutePlanAsk(queryText) ==
    LET q == ToLowerCase(queryText)
    IN  AskDispatch(hasAny(q, AskTestsWords), hasAny(q, AskMigrationsWords),
                    hasAny(q, AskOpenApiWords), hasAny(q, AskAuthWords),
                    hasAny(q, AskDbWords))

(* The keyword lists of the eval script. *)

EvalTestsWords ==
    { <<"i","n","t","e","g","r","a","t","i","o","n"," ","t","e","s","t">>,
      <<"i","n","t","e","g","r","a","t","i","o","n"," ","t","e","s","t","s">>,
      <<"v","i","t","e","s","t">>,
      <<"t","e","s","t",":","d","b">>,
      <<"p","n","p","m"," ","t","e","s","t">> }

EvalDbWords ==
    { <<"d","a","t","a","b","a","s","e">>,
      <<"p","o","s","t","g","r","e","s">>,
      <<"p","o","s","t","g","r","e","s","q","l">>,
      <<"p","g"," ","p","o","o","l">>,
      <<"c","o","n","n","e","c","t","i","o","n">>,
      <<"a","c","c","e","s","s"," ","t","h","e"," ","d","a","t","a","b","a","s","e">> }

EvalAuthWords ==
    { <<"a","u","t","h","e","n","t","i","c","a","t","i","o","n">>,
      <<"a","u","t","h">>,
      <<"x","-","u","s","e","r","-","i","d">>,
      <<"j","w","t">>,
      <<"o","a","u","t","h">>,
      <<"c","o","g","n","i","t","o">> }

EvalOpenApiWords ==
    { <<"o","p","e","n","a","p","i">>,
      <<"s","w","a","g","g","e","r">>,
      <<"t","y","p","e","b","o","x">> }

EvalMigrationsWords ==
    { <<"m","i","g","r","a","t","i","o","n">>,
      <<"m","i","g","r","a","t","i","o","n","s">>,
      <<"d","a","t","a","b","a","s","e"," ","m","i","g","r","a","t","i","o","n","s">>,
      <<"h","o","w"," ","a","r","e"," ","d","a","t","a","b","a","s","e"," ","m","i","g","r","a","t","i","o","n","s"," ","h","a","n","d","l","e","d">>,
      <<"s","q","l","-","f","i","r","s","t">> }


\* the chain of returns of the eval script's inferRoutePlan
EvalDispatch(isTests, isMigrations, isOpenApi, isAuth, isDb) ==
    IF isTests THEN [intent |-> "tests", prefixes |-> <<ApiReadmePrefix>>]
    ELSE IF isMigrations
    THEN [intent |-> "migrations",
          prefixes |-> <<AdrPrefix, DocsReadmePrefix, ReadmePrefix>>]
    ELSE IF isOpenApi
    THEN [intent |-> "openapi", prefixes |-> <<ApiReadmePrefix, OpenApiAdrPrefix>>]
    ELSE IF isAuth
    THEN [intent |-> "auth", prefixes |-> <<ApiReadmePrefix, ReadmePrefix>>]
    ELSE IF isDb
    THEN [intent |-> "db", prefixes |-> <<ReadmePrefix, ApiReadmePrefix>>]
    ELSE [intent |-> "general", prefixes |-> << >>]

inferRoutePlanEval(queryText) ==
    LET q == ToLowerCase(queryText)
    IN  EvalDispatch(hasAny(q, EvalTestsWords), hasAny(q, EvalMigrationsWords),
                     hasAny(q, EvalOpenApiWords), hasAny(q, EvalAuthWords),
                     hasAny(q, EvalDbWords))

----------------------------------------------------------------------------
(* The inputs of the routing specification: the question of the end-to-end *)
(* scenario, and up to MaxQueryWords words joined by single spaces.        *)

MigrationsQuestion ==
    <<"H","o","w"," ","a","r","e"," ","d","a","t","a","b","a","s","e"," ","m","i","g","r","a","t","i","o","n","s"," ","h","a","n","d","l","e","d","?">>

Vocabulary ==
    { <<"H","o","w">>,
      <<"D","a","t","a","b","a","s","e">>,
      <<"m","i","g","r","a","t","i","o","n","s">>,
      <<"m","i","g","r","a","t","e">>,
      <<"v","i","t","e","s","t">>,
      <<"r","u","n">>,
      <<"t","e","s","t","s">>,
      <<"s","w","a","g","g","e","r">>,
      <<"a","u","t","h","o","r">>,
      <<"p","o","o","l">> }

RECURSIVE WordQueries(_)
WordQueries(n) ==
    IF n = 0 THEN {<< >>}
    ELSE LET shorter == WordQueries(n - 1)
         IN  shorter \cup Vocabulary
                \cup {q \o <<" ">> \o w : q \in shorter \ {<< >>}, w \in Vocabulary}

Queries == WordQueries(MaxQueryWords) \cup {MigrationsQuestion}

----------------------------------------------------------------------------
(* The routing specification: a query, then one of the two routers.        *)

InitRoute ==
    /\ pc = "input"
    /\ AuxIdle
    /\ query \in Queries
    /\ plan = NoPlan
    /\ SelectionIdle
    /\ RetrievalIdle
    /\ StoreIdle

AskRoute ==
    /\ pc = "input"
    /\ pc' = "askRoute"
    /\ plan' = inferRoutePlanAsk(query)
    /\ UNCHANGED <<query, selVars, retVars, stoVars, auxVars>>

EvalRoute ==
    /\ pc = "input"
    /\ pc' = "evalRoute"
    /\ plan' = inferRoutePlanEval(query)
    /\ UNCHANGED <<query, selVars, retVars, stoVars, auxVars>>

NextRoute == AskRoute \/ EvalRoute

SpecRoute == InitRoute /\ [][NextRoute]_vars

----------------------------------------------------------------------------
(* The SQLite similarity store.                                            *)

\* p.replaceAll("\\", "/"), then a leading "./", then a leading "/" cut
normalizePath(p) ==
    LET s1 == [i \in 1..Len(p) |-> IF p[i] = "\\" THEN "/" ELSE p[i]]
        s2 == IF StartsWith(s1, <<".", "/">>) THEN SubSeq(s1, 3, Len(s1)) ELSE s1
    IN  IF StartsWith(s2, <<"/">>) THEN Tail(s2) ELSE s2

\* A number is a binary floating-point value num / den, den a power of two,
\* with a significand of SignificandBits bits (a double has 53); every
\* operation rounds its exact result to the nearest such value, ties to
\* the even significand.  Exponent range is not bounded.
RECURSIVE Pow2(_)
Pow2(n) == IF n = 0 THEN 1 ELSE 2 * Pow2(n - 1)

\* significands lie in SignificandLow..SignificandHigh
SignificandLow == Pow2(SignificandBits - 1)

SignificandHigh == Pow2(SignificandBits)

RECURSIVE Reduce(_, _)
Reduce(n, d) ==
    IF d > 1 /\ n % 2 = 0 THEN Reduce(n \div 2, d \div 2)
    ELSE [num |-> n, den |-> d]

\* n / d > 0 rounded to SignificandBits bits; the value sought is
\* (n / d) * (up / down), up and down the powers of two already taken out
RECURSIVE RoundPositive(_, _, _, _)
RoundPositive(n, d, up, down) ==
    IF n >= SignificandHigh * d THEN RoundPositive(n, 2 * d, 2 * up, down)
    ELSE IF n < SignificandLow * d THEN RoundPositive(2 * n, d, up, 2 * down)
    ELSE LET q == n \div d
             rem == n % d
         IN  IF 2 * rem > d \/ (2 * rem = d /\ q % 2 = 1)
             THEN Reduce((q + 1) * up, down)
             ELSE Reduce(q * up, down)

Negate(x) == [num |-> -x.num, den |-> x.den]

Round(n, d) ==
    IF n = 0 THEN [num |-> 0, den |-> 1]
    ELSE IF n > 0 THEN RoundPositive(n, d, 1, 1)
    ELSE Negate(RoundPositive(-n, d, 1, 1))

FloatZero == Round(0, 1)

FloatOne == Round(1, 1)

FloatAdd(x, y) == Round(x.num * y.den + y.num * x.den, x.den * y.den)

FloatMul(x, y) == Round(x.num * y.num, x.den * y.den)

\* x / y for y # 0
FloatDiv(x, y) ==
    IF y.num > 0 THEN Round(x.num * y.den, x.den * y.num)
    ELSE Round(-(x.num * y.den), x.den * (-y.num))

\* the largest m with m * m * d <= n, searched upwards from m
RECURSIVE FloorSqrt(_, _, _)
FloorSqrt(n, d, m) ==
    IF (m + 1) * (m + 1) * d <= n THEN FloorSqrt(n, d, m + 1) ELSE m

\* m or m + 1, whichever is nearer to the square root of n / d
NearestSqrt(n, d, m) ==
    IF 4 * n > (4 * m * m + 4 * m + 1) * d THEN m + 1 ELSE m

\* the square root of n / d > 0, correctly rounded; the value sought is
\* sqrt(n / d) * (up / down)
RECURSIVE SqrtPositive(_, _, _, _)
SqrtPositive(n, d, up, down) ==
    IF n >= SignificandHigh * SignificandHigh * d THEN SqrtPositive(n, 4 * d, 2 * up, down)
    ELSE IF n < SignificandLow * SignificandLow * d THEN SqrtPositive(4 * n, d, up, 2 * down)
    ELSE Reduce(NearestSqrt(n, d, FloorSqrt(n, d, SignificandLow)) * up, down)

\* Math.sqrt(x) for x >= 0
FloatSqrt(x) ==
    IF x.num = 0 THEN FloatZero ELSE SqrtPositive(x.num, x.den, 1, 1)

\* x < y
SimLess(x, y) == x.num * y.den < y.num * x.den

\* the loop's sum of a[i] * b[i] over the first len components, added in
\* index order
RECURSIVE DotProduct(_, _, _)
DotProduct(a, b, len) ==
    IF len = 0 THEN FloatZero
    ELSE FloatAdd(DotProduct(a, b, len - 1),
                  FloatMul(Round(a[len], 1), Round(b[len], 1)))

\* cosineSimilarity of the store
cosineSimilarity(a, b) ==
    LET len == Min(Len(a), Len(b))
        dot == DotProduct(a, b, len)
        na == DotProduct(a, a, len)
        nb == DotProduct(b, b, len)
    IN  IF na = FloatZero \/ nb = FloatZero THEN FloatZero
        ELSE FloatDiv(dot, FloatMul(FloatSqrt(na), FloatSqrt(nb)))

\* cosine of the ask script's MMR helper
cosine(a, b) ==
    LET len == Min(Len(a), Len(b))
        dot == DotProduct(a, b, len)
        na == DotProduct(a, a, len)
        nb == DotProduct(b, b, len)
    IN  IF na = FloatZero \/ nb = FloatZero THEN FloatZero
        ELSE FloatDiv(dot, FloatMul(FloatSqrt(na), FloatSqrt(nb)))

\* an insertion that puts x before the items that compare equal
RECURSIVE InsertBeforeEqual(_, _)
InsertBeforeEqual(sorted, x) ==
    IF sorted = << >> THEN <<x>>
    ELSE IF ~SimLess(x.similarity, Head(sorted).similarity) THEN <<x>> \o sorted
    ELSE <<Head(sorted)>> \o InsertBeforeEqual(Tail(sorted), x)

\* x placed into a list sorted by descending similarity, behind the items
\* that compare equal (Array.prototype.sort is stable)
RECURSIVE InsertDescending(_, _)
InsertDescending(sorted, x) ==
    IF sorted = << >> THEN <<x>>
    ELSE IF SimLess(Head(sorted).similarity, x.similarity) THEN <<x>> \o sorted
    ELSE <<Head(sorted)>> \o InsertDescending(Tail(sorted), x)

RECURSIVE SortInto(_, _)
SortInto(sorted, rest) ==
    IF rest = << >> THEN sorted
    ELSE SortInto(InsertDescending(sorted, Head(rest)), Tail(rest))

\* scored.sort((a, b) => b.similarity - a.similarity)
SortBySimilarity(scored) == SortInto(<< >>, scored)

NoFilter ==
    [hasTypes |-> FALSE, allowedSourceTypes |-> << >>,
     hasPrefix |-> FALSE, sourcePathPrefix |-> << >>]

PrefixFilter(prefix) == [NoFilter EXCEPT !.hasPrefix = TRUE, !.sourcePathPrefix = prefix]

\* a check of the source type allow-list alone
RowPassesTypesOnly(row, filter) ==
    (filter.hasTypes /\ Len(filter.allowedSourceTypes) > 0) =>
        \E i \in 1..Len(filter.allowedSourceTypes) :
            filter.allowedSourceTypes[i] = row.sourceType

\* the row passes the source type allow-list and the path prefix
RowPasses(row, filter) ==
    LET prefixNorm == IF filter.hasPrefix /\ filter.sourcePathPrefix # << >>
                      THEN normalizePath(filter.sourcePathPrefix) ELSE << >>
    IN  /\ (filter.hasTypes /\ Len(filter.allowedSourceTypes) > 0) =>
              \E i \in 1..Len(filter.allowedSourceTypes) :
                  filter.allowedSourceTypes[i] = row.sourceType
        /\ prefixNorm # << >> =>
              StartsWith(normalizePath(row.sourcePath), prefixNorm)

\* the vectors of the bounded tables and requests
TableVectors == {<<1, 0>>, <<1, 1>>, <<-1, 1>>}

\* cosineSimilarity on the vectors of the bounded tables, computed once
SimilarityMemo == [a \in TableVectors, b \in TableVectors |-> cosineSimilarity(a, b)]

\* const similarity = cosineSimilarity(params.queryVector, vector)
Similarity(queryVector, vector) ==
    IF queryVector \in TableVectors /\ vector \in TableVectors
    THEN SimilarityMemo[queryVector, vector]
    ELSE cosineSimilarity(queryVector, vector)

Scored(row, queryVector, includeVectors) ==
    [id |-> row.id, sourcePath |-> row.sourcePath, sourceType |-> row.sourceType,
     hasSection |-> row.hasSection, sectionPath |-> row.sectionPath,
     text |-> row.text,
     similarity |-> Similarity(queryVector, row.vector),
     hasVector |-> includeVectors,
     vector |-> IF includeVectors THEN row.vector ELSE << >>]

\* a search without the early return on topK
searchWithoutTopKGuard(st, collections, queryVector, k, filter, includeVectors) ==
    IF collections = {} THEN << >>
    ELSE
      LET rows == SelectSeq(st, LAMBDA row : row.collection \in collections)
          kept == SelectSeq(rows, LAMBDA row : RowPasses(row, filter))
          scored == [i \in 1..Len(kept) |-> Scored(kept[i], queryVector, includeVectors)]
      IN  Slice(SortBySimilarity(scored), 0, k)

\* SqliteStore.search over the rows st of the chunks table
search(st, collections, queryVector, k, filter, includeVectors) ==
    IF collections = {} THEN << >>
    ELSE IF k <= 0 THEN << >>
    ELSE
      LET rows == SelectSeq(st, LAMBDA row : row.collection \in collections)
          kept == SelectSeq(rows, LAMBDA row : RowPasses(row, filter))
          scored == [i \in 1..Len(kept) |-> Scored(kept[i], queryVector, includeVectors)]
      IN  Slice(SortBySimilarity(scored), 0, k)

----------------------------------------------------------------------------
(* Routed-first retrieval (the same function in the ask and eval scripts). *)
(* The accumulator holds [r, by]: the result and, as history, the number   *)
(* of the fetch that pushed it (the prefix's position, or one more for the *)
(* backfill).                                                              *)

OverFetch == 32

\* fetch: the store's search, Math.max(topK, 32) wide
Fetch(c, filter) ==
    search(c.store, {c.collection}, c.queryVector, Max(c.topK, OverFetch),
           filter, c.includeVectors)

\* a pushDedup that puts the new items in front
RECURSIVE pushDedupInFront(_, _, _, _)
pushDedupInFront(out, items, by, k) ==
    IF items = << >> THEN out
    ELSE IF \E i \in 1..Len(out) : out[i].r.id = Head(items).id
    THEN pushDedupInFront(out, Tail(items), by, k)
    ELSE LET out2 == <<[r |-> Head(items), by |-> by]>> \o out
         IN  IF Len(out2) >= k THEN out2
             ELSE pushDedupInFront(out2, Tail(items), by, k)

\* a pushDedup without the seen set
RECURSIVE pushAll(_, _, _, _)
pushAll(out, items, by, k) ==
    IF items = << >> THEN out
    ELSE LET out2 == Append(out, [r |-> Head(items), by |-> by])
         IN  IF Len(out2) >= k THEN out2
             ELSE pushAll(out2, Tail(items), by, k)

\* pushDedup: a seen id is skipped; the loop returns once out is full
RECURSIVE pushDedup(_, _, _, _)
pushDedup(out, items, by, k) ==
    IF items = << >> THEN out
    ELSE IF \E i \in 1..Len(out) : out[i].r.id = Head(items).id
    THEN pushDedup(out, Tail(items), by, k)
    ELSE LET out2 == Append(out, [r |-> Head(items), by |-> by])
         IN  IF Len(out2) >= k THEN out2
             ELSE pushDedup(out2, Tail(items), by, k)

\* a routed loop that fetches nothing
RoutedSkipped(c, prefixes, i, out) == [out |-> out, full |-> FALSE]

RECURSIVE RoutedFirst(_, _, _, _)

\* after prefix i has pushed: the early return once out is full, else the
\* next prefix
RoutedStep(c, prefixes, i, out) ==
    IF Len(out) >= c.topK THEN [out |-> out, full |-> TRUE]
    ELSE RoutedFirst(c, prefixes, i + 1, out)

\* the loop over plan.prefixes from prefix i on
RoutedFirst(c, prefixes, i, out) ==
    IF i > Len(prefixes) THEN [out |-> out, full |-> FALSE]
    ELSE RoutedStep(c, prefixes, i,
                    pushDedup(out, Fetch(c, PrefixFilter(prefixes[i])), i, c.topK))

\* what follows the routed loop: its early return, or the global backfill
\* and slice(0, topK)
Backfill(c, prefixes, routed) ==
    IF routed.full THEN routed.out
    ELSE Slice(pushDedup(routed.out, Fetch(c, NoFilter), Len(prefixes) + 1, c.topK),
               0, c.topK)

\* a retrieval that never backfills
retrieveRoutedOnly(c, prefixes) == RoutedFirst(c, prefixes, 1, << >>).out

\* retrieveWithRouting once the plan is inferred: the routed loop, then
\* its early return or the backfill
retrieveWithRouting(c, prefixes) ==
    Backfill(c, prefixes, RoutedFirst(c, prefixes, 1, << >>))

Results(trace) == [i \in 1..Len(trace) |-> trace[i].r]

PushedBy(trace) == [i \in 1..Len(trace) |-> trace[i].by]

----------------------------------------------------------------------------
(* The inputs of the retrieval specification.                              *)

Collection == "docvault"

OtherCollection == "other"

RootReadmePath == <<"README.md">>

RowPaths == {AdrMigrationsPath, RootReadmePath, NotesPath}

\* embeddings of dimension 2; the query embeds to QueryVector
RowVectors == {<<1, 0>>, <<1, 1>>}

QueryVector == <<1, 0>>

RowContents ==
    { [collection |-> Collection, sourcePath |-> p, vector |-> v] :
        p \in RowPaths, v \in RowVectors }
    \cup {[collection |-> OtherCollection, sourcePath |-> AdrMigrationsPath,
           vector |-> <<1, 0>>]}

\* row i of the table has chunk id i
Row(i, content) ==
    [id |-> i, collection |-> content.collection, sourcePath |-> content.sourcePath,
     sourceType |-> "markdown", hasSection |-> FALSE, sectionPath |-> << >>,
     text |-> TextPadded, vector |-> content.vector]

Stores ==
    UNION { { [i \in 1..n |-> Row(i, f[i])] : f \in [1..n -> RowContents] } :
            n \in 0..MaxRows }

DbQuestion == <<"D","a","t","a","b","a","s","e">>

GeneralQuestion == <<"H","o","w">>

RetrievalQueries == {MigrationsQuestion, DbQuestion, GeneralQuestion}

\* the ask script never retrieves fewer than 16
MinRetrievalTopK == 16

\* the plans of the bounded queries, inferred once
AskPlanOf == [q \in RetrievalQueries |-> inferRoutePlanAsk(q)]

EvalPlanOf == [q \in RetrievalQueries |-> inferRoutePlanEval(q)]

----------------------------------------------------------------------------
(* The retrieval specification: a store, a query and --topK, then the      *)
(* retrieval of the ask script or of the eval script.                      *)

InitRetrieve ==
    /\ pc = "input"
    /\ AuxIdle
    /\ store \in Stores
    /\ query \in RetrievalQueries
    /\ topK \in 0..MaxTopK
    /\ plan = NoPlan
    /\ retrieved = << >>
    /\ contrib = << >>
    /\ SelectionIdle
    /\ StoreIdle

\* const { plan, results } = retrieveWithRouting(...)
Retrieved(p, trace) ==
    /\ plan' = p
    /\ retrieved' = Results(trace)
    /\ contrib' = PushedBy(trace)

AskRetrieve ==
    /\ pc = "input"
    /\ \E useMmr \in BOOLEAN :
          LET p == AskPlanOf[query]
              c == [store |-> store, collection |-> Collection,
                    queryVector |-> QueryVector,
                    topK |-> Max(topK, MinRetrievalTopK),
                    includeVectors |-> useMmr]
          IN  Retrieved(p, retrieveWithRouting(c, p.prefixes))
    /\ pc' = "askRetrieve"
    /\ UNCHANGED <<query, store, topK, selVars, stoVars, auxVars>>

EvalRetrieve ==
    /\ pc = "input"
    /\ LET p == EvalPlanOf[query]
           c == [store |-> store, collection |-> Collection,
                 queryVector |-> QueryVector, topK |-> topK,
                 includeVectors |-> FALSE]
       IN  Retrieved(p, retrieveWithRouting(c, p.prefixes))
    /\ pc' = "evalRetrieve"
    /\ UNCHANGED <<query, store, topK, selVars, stoVars, auxVars>>

NextRetrieve == AskRetrieve \/ EvalRetrieve

SpecRetrieve == InitRetrieve /\ [][NextRetrieve]_vars

----------------------------------------------------------------------------
(* The search specification: a table and one call of SqliteStore.search,   *)
(* as the query script and the smoke script make it.  Paths are sequences  *)
(* of characters here.                                                     *)

PathDA == <<"d", "/", "a">>

PathDotDB == <<".", "/", "d", "/", "b">>

PathBackslashDC == <<"d", "\\", "c">>

PathEA == <<"e", "/", "a">>

SearchRowContents ==
    { [collection |-> Collection, sourcePath |-> PathDA,
       sourceType |-> "markdown", vector |-> <<1, 0>>],
      [collection |-> Collection, sourcePath |-> PathDotDB,
       sourceType |-> "code", vector |-> <<1, 0>>],
      [collection |-> Collection, sourcePath |-> PathEA,
       sourceType |-> "markdown", vector |-> <<1, 0>>],
      [collection |-> Collection, sourcePath |-> PathBackslashDC,
       sourceType |-> "markdown", vector |-> <<1, 1>>],
      [collection |-> OtherCollection, sourcePath |-> PathDA,
       sourceType |-> "code", vector |-> <<-1, 1>>] }

\* row i of the table has chunk id i
SearchRow(i, content) ==
    [id |-> i, collection |-> content.collection, sourcePath |-> content.sourcePath,
     sourceType |-> content.sourceType, hasSection |-> FALSE, sectionPath |-> << >>,
     text |-> TextShort, vector |-> content.vector]

SearchStores ==
    UNION { { [i \in 1..n |-> SearchRow(i, f[i])] : f \in [1..n -> SearchRowContents] } :
            n \in 0..MaxRows }

\* --sourcePathPrefix: "/", "d/" and ".\d"
SearchPrefixes == {<<"/">>, <<"d", "/">>, <<".", "\\", "d">>}

\* the filters: allowedSourceTypes absent, [] or ["markdown"], with or
\* without a sourcePathPrefix
SearchFilters ==
    { [hasTypes |-> t[1], allowedSourceTypes |-> t[2],
       hasPrefix |-> p[1], sourcePathPrefix |-> p[2]] :
        t \in {<<FALSE, << >>>>, <<TRUE, << >>>>, <<TRUE, <<"markdown">>>>},
        p \in {<<FALSE, << >>>>} \cup {<<TRUE, x>> : x \in SearchPrefixes} }

Requests ==
    { [collections |-> cs, queryVector |-> QueryVector, topK |-> k,
       hasFilter |-> f # NoFilter, filter |-> f, includeVectors |-> iv] :
        cs \in {{}, {Collection}, {Collection, OtherCollection}},
        k \in (-1)..MaxTopK, f \in SearchFilters, iv \in BOOLEAN }

InitSearch ==
    /\ pc = "input"
    /\ AuxIdle
    /\ store \in SearchStores
    /\ topK = 0
    /\ retrieved = << >>
    /\ contrib = << >>
    /\ StoreIdle
    /\ SelectionIdle
    /\ RouteIdle

Search ==
    /\ pc = "input"
    /\ \E req \in Requests :
          /\ request' = req
          /\ retrieved' = search(store, req.collections, req.queryVector, req.topK,
                                 IF req.hasFilter THEN req.filter ELSE NoFilter,
                                 req.includeVectors)
    /\ pc' = "search"
    /\ UNCHANGED <<store, topK, contrib, writers, latest, sim, selVars, routeVars, auxVars>>

NextSearch == Search

SpecSearch == InitSearch /\ [][NextSearch]_vars

----------------------------------------------------------------------------
(* Properties of the selection.                                            *)

Ladders == {"ask", "eval"}

Passes == {"primary", "relaxed"}

\* the (sourcePath, sectionPath) key of the spec, a missing section
\* counting as the empty one
SameSection(a, b) ==
    /\ a.sourcePath = b.sourcePath
    /\ (IF a.hasSection THEN a.sectionPath ELSE << >>)
         = (IF b.hasSection THEN b.sectionPath ELSE << >>)

NoTwoWithSameSection(s) ==
    \A i \in 1..Len(s) : \A j \in 1..Len(s) : i # j => ~SameSection(s[i], s[j])

IsRouted(r) ==
    \E i \in 1..Len(opts.priorityPrefixes) :
        StartsWith(r.sourcePath, opts.priorityPrefixes[i])

TrimmedLength(r) == TextLength(Trim(r.text))

SelectedFrom(path) == {i \in 1..Len(selected) : selected[i].sourcePath = path}

\* C1: the final selection of the ask and eval ladders (primary pass,
\* relaxed retry or raw fallback) holds at most maxChunks items.
C1_AtMostMaxChunks ==
    pc \in Ladders => Len(selected) <= opts.maxChunks

\* C2 as stated: the final selection, the raw fallback's included, never
\* holds two items with the same (sourcePath, sectionPath) key.
C2_NoDuplicateSection ==
    pc \in Ladders => NoTwoWithSameSection(selected)

\* C2 as amended: a final selection produced by the primary pass or by the
\* relaxed retry never holds two items with the same (sourcePath,
\* sectionPath) key; the raw fallback is not covered.
C2_NoDuplicateSectionInPasses ==
    (pc \in Ladders /\ rung \in Passes) => NoTwoWithSameSection(selected)

\* a pass has selected an item and skipped a later candidate of the same
\* section that the low-signal rule let through
C2_Witness ==
    /\ pc = "ask"
    /\ rung \in Passes
    /\ Len(candidates) = 2
    /\ SameSection(candidates[1], candidates[2])
    /\ IsRouted(candidates[1])
    /\ opts.maxChunks = 2
    /\ selected = <<candidates[1]>>

\* C3: N > maxPerFile candidates of pairwise distinct sections from one
\* routed source are all accepted, up to maxChunks, by the ask selector and
\* by the eval selector.
C3_PriorityCapWaived ==
    ( /\ pc \in Ladders
      /\ Len(candidates) > opts.maxPerFile
      /\ \A i \in 1..Len(candidates) :
            /\ IsRouted(candidates[i])
            /\ candidates[i].sourcePath = candidates[1].sourcePath
      /\ NoTwoWithSameSection(candidates) )
    => Len(selected) >= Min(Len(candidates), opts.maxChunks)

\* C4: in the output of a selection pass at most maxPerFile items share a
\* sourcePath that matches no priority prefix.
C4_PerSourceCap ==
    (pc # "input" /\ rung \in Passes) =>
        \A i \in 1..Len(selected) :
            ~IsRouted(selected[i]) =>
                Cardinality(SelectedFrom(selected[i].sourcePath)) <= opts.maxPerFile

\* the cap has acted: two candidates of distinct sections from one unrouted
\* file passed the low-signal rule, the pass kept the first only
C4_Witness ==
    /\ pc = "ask"
    /\ rung = "primary"
    /\ opts.maxPerFile = 1
    /\ opts.maxChunks = 2
    /\ Len(candidates) = 2
    /\ candidates[1].sourcePath = candidates[2].sourcePath
    /\ ~SameSection(candidates[1], candidates[2])
    /\ ~IsRouted(candidates[1])
    /\ TrimmedLength(candidates[2]) >= opts.minChars
    /\ ~opts.dropStatus
    /\ selected = <<candidates[1]>>

\* the low-signal rule of the selector that has run
DroppedAsLowSignal(r) ==
    IF pc = "unrouted" THEN isLowSignalChunkUnrouted(r, opts)
    ELSE isLowSignalChunk(r, opts)

\* C5: in every selector a candidate of a routed source is never dropped as
\* low-signal, and a candidate of another source is dropped exactly when
\* its trimmed text is shorter than minChars or, with dropStatus set, its
\* section contains "status" in any letter case.
C5_LowSignalRule ==
    pc # "input" =>
        \A i \in 1..Len(candidates) :
            LET r == candidates[i]
            IN  DroppedAsLowSignal(r) <=>
                    /\ ~IsRouted(r)
                    /\ \/ TrimmedLength(r) < opts.minChars
                       \/ /\ opts.dropStatus
                          /\ r.hasSection
                          /\ Includes(ToLowerCase(r.sectionPath), StatusWord)

\* C6 as stated: a non-empty candidate list gives a non-empty final
\* selection, whatever the options.
C6_NeverEmpty ==
    (pc \in Ladders /\ Len(candidates) > 0) => Len(selected) > 0

\* C6 as amended: a non-empty candidate list gives a non-empty final
\* selection whenever maxChunks >= 1.
C6_NeverEmptyForPositiveMaxChunks ==
    (pc \in Ladders /\ Len(candidates) > 0 /\ opts.maxChunks >= 1)
        => Len(selected) > 0

\* both passes came back empty and the raw fallback filled the selection
C6_Witness ==
    /\ pc = "eval"
    /\ rung = "raw"
    /\ Len(candidates) = 2
    /\ opts.maxChunks = 1
    /\ selected = <<candidates[1]>>

AllTooShort ==
    \A i \in 1..Len(candidates) : TrimmedLength(candidates[i]) < opts.minChars

\* C7 as stated: when every candidate's trimmed text is shorter than
\* minChars the final selection holds at least min(maxChunks, pool size)
\* items.
C7_AllShortFillsSelection ==
    (pc \in Ladders /\ AllTooShort)
        => Len(selected) >= Min(opts.maxChunks, Len(candidates))

\* C7 as amended: when every candidate's trimmed text is shorter than
\* minChars, the pool is not empty and maxChunks >= 1, the final selection
\* is not empty, and it is the first min(maxChunks, pool size) candidates
\* when it comes from the raw fallback; a pass still dedups and caps.
C7_AllShortNonEmptyRawFills ==
    (pc \in Ladders /\ AllTooShort /\ Len(candidates) > 0 /\ opts.maxChunks >= 1)
        => /\ Len(selected) > 0
           /\ rung = "raw" =>
                selected = SubSeq(candidates, 1, Min(opts.maxChunks, Len(candidates)))

\* every candidate is too short for both passes; the raw fallback returns
\* both of them
C7_Witness ==
    /\ pc = "ask"
    /\ rung = "raw"
    /\ AllTooShort
    /\ Len(candidates) = 2
    /\ opts.maxChunks = 2
    /\ opts.maxPerFile = 1
    /\ selected = candidates

----------------------------------------------------------------------------
(* Properties of the routing.                                              *)

Routers == {"askRoute", "evalRoute"}

\* the precedence of the spec, highest first; general is the default
Precedence == <<"tests", "migrations", "openapi", "auth", "db">>

KeywordsOf(intent) ==
    IF pc = "askRoute"
    THEN CASE intent = "tests" -> AskTestsWords
           [] intent = "migrations" -> AskMigrationsWords
           [] intent = "openapi" -> AskOpenApiWords
           [] intent = "auth" -> AskAuthWords
           [] intent = "db" -> AskDbWords
    ELSE CASE intent = "tests" -> EvalTestsWords
           [] intent = "migrations" -> EvalMigrationsWords
           [] intent = "openapi" -> EvalOpenApiWords
           [] intent = "auth" -> EvalAuthWords
           [] intent = "db" -> EvalDbWords

QueryMatches(intent) ==
    \E w \in KeywordsOf(intent) : Includes(ToLowerCase(query), w)

\* C8: each router returns the first intent of tests > migrations >
\* openapi > auth > db whose keyword list has a member occurring in the
\* lower-cased query, and general when none has; a query with a migrations
\* keyword and a db keyword (and no tests keyword) is routed to migrations.
C8_RouterPrecedence ==
    pc \in Routers =>
        /\ \A i \in 1..Len(Precedence) :
              ( /\ QueryMatches(Precedence[i])
                /\ \A j \in 1..(i - 1) : ~QueryMatches(Precedence[j]) )
              => plan.intent = Precedence[i]
        /\ (\A i \in 1..Len(Precedence) : ~QueryMatches(Precedence[i]))
              <=> plan.intent = "general"

\* a query with a db keyword and a migrations keyword, routed to migrations
C8_Witness ==
    /\ pc = "askRoute"
    /\ QueryMatches("db")
    /\ QueryMatches("migrations")
    /\ ~QueryMatches("tests")
    /\ plan.intent = "migrations"

\* every plan each router returns over the bounded queries
AskPlans == {inferRoutePlanAsk(q) : q \in Queries}

EvalPlans == {inferRoutePlanEval(q) : q \in Queries}

\* C9: within a router the prefix list is a function of the intent (any
\* other query of the same intent gets the same ordered list), it is empty
\* for general and non-empty for every other intent.
C9_PrefixesByIntent ==
    pc \in Routers =>
        /\ \A p \in (IF pc = "askRoute" THEN AskPlans ELSE EvalPlans) :
              p.intent = plan.intent => p.prefixes = plan.prefixes
        /\ plan.intent = "general" <=> plan.prefixes = << >>

\* two different queries routed to migrations by the eval router
C9_Witness ==
    /\ pc = "evalRoute"
    /\ plan.intent = "migrations"
    /\ plan.prefixes # << >>
    /\ \E q \in Queries :
          /\ q # query
          /\ ~Includes(ToLowerCase(q), ToLowerCase(query))
          /\ inferRoutePlanEval(q).intent = "migrations"

----------------------------------------------------------------------------
(* Properties of the retrieval.                                            *)

Retrievals == {"askRetrieve", "evalRetrieve"}

\* the place in the table's scan order of the row a result comes from
ScanPosition(r) == CHOOSE k \in 1..Len(store) : store[k].id = r.id

SameSimilarity(x, y) == ~SimLess(x, y) /\ ~SimLess(y, x)

\* C10: in the results every item pushed by a prefix-filtered fetch stands
\* before every item pushed by the backfill, items of an earlier prefix
\* stand before items of a later one, each item pushed for a prefix matches
\* it, and the items of one fetch keep the store's order: descending
\* similarity, equal similarities in scan order.
C10_RoutedFirstOrder ==
    pc \in Retrievals =>
        /\ Len(contrib) = Len(retrieved)
        /\ \A i \in 1..Len(retrieved) :
              /\ contrib[i] \in 1..(Len(plan.prefixes) + 1)
              /\ contrib[i] <= Len(plan.prefixes) =>
                    StartsWith(normalizePath(retrieved[i].sourcePath),
                               normalizePath(plan.prefixes[contrib[i]]))
        /\ \A i \in 1..Len(retrieved) : \A j \in 1..Len(retrieved) :
              i < j =>
                /\ contrib[i] <= contrib[j]
                /\ contrib[i] = contrib[j] =>
                      /\ ~SimLess(retrieved[i].similarity, retrieved[j].similarity)
                      /\ SameSimilarity(retrieved[i].similarity, retrieved[j].similarity)
                            => ScanPosition(retrieved[i]) < ScanPosition(retrieved[j])

\* one item from each prefix of the migrations plan and one from the
\* backfill, the routed first item less similar than the backfilled last
C10_Witness ==
    /\ pc = "askRetrieve"
    /\ plan.intent = "migrations"
    /\ contrib = <<1, 2, 3>>
    /\ SimLess(retrieved[1].similarity, retrieved[3].similarity)
    /\ ScanPosition(retrieved[3]) < ScanPosition(retrieved[1])

\* the targetSize the script hands to retrieveWithRouting
TargetSize == IF pc = "askRetrieve" THEN Max(topK, MinRetrievalTopK) ELSE topK

\* the retrieval with an empty prefix list: the unfiltered top targetSize
Generic ==
    Results(retrieveWithRouting(
        [store |-> store, collection |-> Collection, queryVector |-> QueryVector,
         topK |-> TargetSize, includeVectors |-> FALSE], << >>))

Ids(items) == {items[i].id : i \in 1..Len(items)}

IdSeq(items) == [i \in 1..Len(items) |-> items[i].id]

\* the number of results pushed by a prefix-filtered fetch
RoutedCount == Cardinality({i \in 1..Len(contrib) : contrib[i] <= Len(plan.prefixes)})

\* C11 as stated: every chunk of the generic unfiltered retrieval is present
\* in the results of the retrieval with the route plan.
C11_RoutingKeepsRecall ==
    pc \in Retrievals => Ids(Generic) \subseteq Ids(retrieved)

\* C11: the routed retrieval returns at least as many items as the generic
\* one (as many, for a targetSize of 1 or more), and
\* behind its routed items stand the generic results, in their order and
\* without the ones already routed, as far as targetSize leaves room; so
\* every generic chunk is present when the routed items that are not generic
\* results leave room for it, in particular when the generic retrieval
\* returns fewer than targetSize items.
C11_RoutingPrependsWithinTargetSize ==
    pc \in Retrievals =>
        LET n == RoutedCount
            routed == Ids(SubSeq(retrieved, 1, n))
            rest == SelectSeq(Generic, LAMBDA g : g.id \notin routed)
        IN  /\ Len(retrieved) >= Len(Generic)
            /\ TargetSize >= 1 => Len(retrieved) = Len(Generic)
            /\ Len(retrieved) - n <= Len(rest)
            /\ IdSeq(SubSeq(retrieved, n + 1, Len(retrieved)))
                  = IdSeq(SubSeq(rest, 1, Len(retrieved) - n))
            /\ Len(Generic) < TargetSize => Ids(Generic) \subseteq Ids(retrieved)

\* a routed item that is no generic result has displaced a generic one,
\* and the backfill still added an item
C11_Witness ==
    /\ pc = "evalRetrieve"
    /\ RoutedCount > 0
    /\ RoutedCount < Len(retrieved)
    /\ ~(Ids(Generic) \subseteq Ids(retrieved))

\* C12 as stated: the results are never longer than targetSize.
C12_AtMostTargetSize ==
    pc \in Retrievals => Len(retrieved) <= TargetSize

\* C13: no two results have the same chunk id, and a result stands where
\* the first fetch that returns it pushed it: a result pushed for a prefix
\* matches no earlier prefix, a result pushed by the backfill matches none.
C13_NoDuplicateIds ==
    pc \in Retrievals =>
        /\ \A i \in 1..Len(retrieved) : \A j \in 1..Len(retrieved) :
              i # j => retrieved[i].id # retrieved[j].id
        /\ \A i \in 1..Len(retrieved) :
              \A b \in 1..Len(plan.prefixes) :
                  b < contrib[i] =>
                      ~StartsWith(normalizePath(retrieved[i].sourcePath),
                                  normalizePath(plan.prefixes[b]))

\* a routed result that the backfill returns again, and a backfilled result
\* behind it
C13_Witness ==
    /\ pc = "askRetrieve"
    /\ Len(plan.prefixes) > 0
    /\ Len(retrieved) = 3
    /\ contrib[1] <= Len(plan.prefixes)
    /\ contrib[3] = Len(plan.prefixes) + 1
    /\ retrieved[1].id \in Ids(Generic)

----------------------------------------------------------------------------
(* Upserts.  A table row is kept as the values that JSON.parse returns for *)
(* its metadata_json and vector_json; for the strings and finite numbers   *)
(* of the model these equal the values that were stringified.              *)

Writers == {"w1", "w2"}

ChunkIds == {1, 2}

\* two contents a chunk id is upserted with
VersionA ==
    [text |-> TextShort, sourcePath |-> PathDA, sourceType |-> "markdown",
     vector |-> <<1, 0>>]

VersionB ==
    [text |-> TextPadded, sourcePath |-> PathEA, sourceType |-> "code",
     vector |-> <<1, 1>>]

\* an EmbeddedChunk: chunk.id, chunk.text, chunk.metadata and vector
EmbeddedChunk(i, version) ==
    [id |-> i, text |-> version.text, sourcePath |-> version.sourcePath,
     sourceType |-> version.sourceType, hasSection |-> FALSE, sectionPath |-> << >>,
     vector |-> version.vector]

EmbeddedChunks == {EmbeddedChunk(i, v) : i \in ChunkIds, v \in {VersionA, VersionB}}

\* params.items: no item, one item or two items
Batches ==
    {<< >>} \cup {<<x>> : x \in EmbeddedChunks}
            \cup {<<x, y>> : x \in EmbeddedChunks, y \in EmbeddedChunks}

\* the row that stmt.run writes for an item
StoredRow(collection, it) ==
    [id |-> it.id, collection |-> collection, sourcePath |-> it.sourcePath,
     sourceType |-> it.sourceType, hasSection |-> it.hasSection,
     sectionPath |-> it.sectionPath, text |-> it.text, vector |-> it.vector]

\* a plain INSERT that appends the row
InsertRow(tbl, collection, it) == Append(tbl, StoredRow(collection, it))

\* INSERT ... ON CONFLICT(chunk_id) DO UPDATE: the row of the id is replaced
\* where it stands, a new id is appended
UpsertRow(tbl, collection, it) ==
    IF \E k \in 1..Len(tbl) : tbl[k].id = it.id
    THEN LET k == CHOOSE k \in 1..Len(tbl) : tbl[k].id = it.id
         IN  [tbl EXCEPT ![k] = StoredRow(collection, it)]
    ELSE Append(tbl, StoredRow(collection, it))

\* the loop of the transaction from item i on
RECURSIVE RunItems(_, _, _, _)
RunItems(tbl, collection, items, i) ==
    IF i > Len(items) THEN tbl
    ELSE RunItems(UpsertRow(tbl, collection, items[i]), collection, items, i + 1)

\* upsertEmbeddedChunks run to its end on the table tbl
upsertEmbeddedChunks(tbl, collection, items) == RunItems(tbl, collection, items, 1)

\* what other connections see after a stmt.run without a transaction
VisibleAfterAutocommit(committed, work) == work

\* what other connections see after a stmt.run inside db.transaction: the
\* committed table
VisibleAfterRun(committed, work) == committed

IdleWriter ==
    [phase |-> "idle", collection |-> Collection, items |-> << >>, next |-> 1,
     work |-> << >>]

NoUpsert == [upserted |-> FALSE]

\* the history once the batch is committed
RECURSIVE RecordItems(_, _, _, _)
RecordItems(hist, collection, items, i) ==
    IF i > Len(items) THEN hist
    ELSE RecordItems(
           [hist EXCEPT ![items[i].id] =
               [upserted |-> TRUE, collection |-> collection, item |-> items[i],
                again |-> hist[items[i].id].upserted]],
           collection, items, i + 1)

\* the reader's call: everything of the collection, with vectors
ReadRequest ==
    [collections |-> {Collection}, queryVector |-> QueryVector, topK |-> OverFetch,
     hasFilter |-> FALSE, filter |-> NoFilter, includeVectors |-> TRUE]

UpsertParams ==
    {[collection |-> c, items |-> b] : c \in {Collection, OtherCollection}, b \in Batches}

\* a search over both collections
AllRequest == [ReadRequest EXCEPT !.collections = {Collection, OtherCollection}]

----------------------------------------------------------------------------
(* The upsert specification: one process calls upsertEmbeddedChunks and    *)
(* search one after the other, as the ingest and smoke scripts do.         *)

InitUpsert ==
    /\ pc = "init"
    /\ AuxIdle
    /\ store = << >>
    /\ writers = << >>
    /\ latest = [i \in ChunkIds |-> NoUpsert]
    /\ request = NoRequest
    /\ sim = NoSim
    /\ topK = 0
    /\ retrieved = << >>
    /\ contrib = << >>
    /\ SelectionIdle
    /\ RouteIdle

\* store.upsertEmbeddedChunks({ collection, items })
Upsert ==
    /\ \E p \in UpsertParams :
          /\ store' = upsertEmbeddedChunks(store, p.collection, p.items)
          /\ latest' = RecordItems(latest, p.collection, p.items, 1)
    /\ pc' = "upsert"
    /\ UNCHANGED <<writers, request, sim, topK, retrieved, contrib, selVars, routeVars, auxVars>>

\* store.search over both collections
SearchUpserted ==
    /\ request' = AllRequest
    /\ retrieved' = search(store, AllRequest.collections, AllRequest.queryVector,
                           AllRequest.topK, NoFilter, AllRequest.includeVectors)
    /\ pc' = "searchUpserted"
    /\ UNCHANGED <<store, writers, latest, sim, topK, contrib, selVars, routeVars, auxVars>>

NextUpsert == Upsert \/ SearchUpserted

SpecUpsert == InitUpsert /\ [][NextUpsert]_vars

----------------------------------------------------------------------------
(* The transaction specification: writer processes (runs of the ingest     *)
(* script) upsert batches into one database file, statement by statement,  *)
(* while a reader searches it.  Writer w1 ingests into the collection the  *)
(* reader searches, writer w2 into the other one.                          *)

WriterCollection(w) == IF w = "w1" THEN Collection ELSE OtherCollection

InitTransactions ==
    /\ pc = "init"
    /\ AuxIdle
    /\ store = << >>
    /\ writers = [w \in Writers |-> IdleWriter]
    /\ latest = [i \in ChunkIds |-> NoUpsert]
    /\ request = NoRequest
    /\ sim = NoSim
    /\ topK = 0
    /\ retrieved = << >>
    /\ contrib = << >>
    /\ SelectionIdle
    /\ RouteIdle

\* tx(params.items) starts: the transaction takes the write lock
UpsertBegin(w) ==
    /\ writers[w].phase = "idle"
    /\ \A o \in Writers : writers[o].phase = "idle"
    /\ \E items \in Batches :
          writers' = [writers EXCEPT ![w] =
                         [phase |-> "open", collection |-> WriterCollection(w),
                          items |-> items, next |-> 1, work |-> store]]
    /\ pc' = "begin"
    /\ UNCHANGED <<store, latest, request, sim, topK, retrieved, contrib,
                   selVars, routeVars, auxVars>>

\* another writer holds the write lock: the statement fails with
\* SQLITE_BUSY and nothing is written
UpsertBusy(w) ==
    /\ writers[w].phase = "idle"
    /\ \E o \in Writers : writers[o].phase = "open"
    /\ pc' = "busy"
    /\ UNCHANGED <<store, writers, latest, request, sim, topK, retrieved, contrib,
                   selVars, routeVars, auxVars>>

\* stmt.run for the next item of the batch
UpsertRun(w) ==
    /\ writers[w].phase = "open"
    /\ writers[w].next <= Len(writers[w].items)
    /\ LET work == UpsertRow(writers[w].work, writers[w].collection,
                             writers[w].items[writers[w].next])
       IN  /\ writers' = [writers EXCEPT ![w].work = work, ![w].next = @ + 1]
           /\ store' = VisibleAfterRun(store, work)
    /\ pc' = "run"
    /\ UNCHANGED <<latest, request, sim, topK, retrieved, contrib, selVars, routeVars, auxVars>>

\* the loop is over: COMMIT
UpsertCommit(w) ==
    /\ writers[w].phase = "open"
    /\ writers[w].next > Len(writers[w].items)
    /\ store' = writers[w].work
    /\ latest' = RecordItems(latest, writers[w].collection, writers[w].items, 1)
    /\ writers' = [writers EXCEPT ![w] = IdleWriter]
    /\ pc' = "commit"
    /\ UNCHANGED <<request, sim, topK, retrieved, contrib, selVars, routeVars, auxVars>>

\* a stmt.run throws (or the process dies): ROLLBACK
UpsertRollback(w) ==
    /\ writers[w].phase = "open"
    /\ writers[w].next <= Len(writers[w].items)
    /\ writers' = [writers EXCEPT ![w] = IdleWriter]
    /\ pc' = "rollback"
    /\ UNCHANGED <<store, latest, request, sim, topK, retrieved, contrib,
                   selVars, routeVars, auxVars>>

\* a reader's search; its SELECT reads the committed table
Read ==
    /\ request' = ReadRequest
    /\ retrieved' = search(store, ReadRequest.collections, ReadRequest.queryVector,
                           ReadRequest.topK, NoFilter, ReadRequest.includeVectors)
    /\ pc' = "read"
    /\ UNCHANGED <<store, writers, latest, sim, topK, contrib, selVars, routeVars, auxVars>>

NextTransactions ==
    \/ \E w \in Writers :
          \/ UpsertBegin(w)
          \/ UpsertBusy(w)
          \/ UpsertRun(w)
          \/ UpsertCommit(w)
          \/ UpsertRollback(w)
    \/ Read

SpecTransactions == InitTransactions /\ [][NextTransactions]_vars

----------------------------------------------------------------------------
(* The MMR helper of the ask script.  A candidate is a retrieved chunk     *)
(* with its similarity and, when the store included it, its vector.        *)

FloatSub(x, y) == FloatAdd(x, Negate(y))

FloatMax(x, y) == IF SimLess(x, y) THEN y ELSE x

\* cosine on the vectors of the bounded tables, computed once
CosineMemo == [a \in TableVectors, b \in TableVectors |-> cosine(a, b)]

\* s.vector ? cosine(c.vector!, s.vector) : 0
CosineTo(c, s) ==
    IF ~s.hasVector THEN FloatZero
    ELSE IF c.vector \in TableVectors /\ s.vector \in TableVectors
    THEN CosineMemo[c.vector, s.vector]
    ELSE cosine(c.vector, s.vector)

\* Math.max(...selected.map(...)) over the first n selected items
RECURSIVE MaxCosine(_, _, _)
MaxCosine(c, chosen, n) ==
    IF n = 1 THEN CosineTo(c, chosen[1])
    ELSE FloatMax(MaxCosine(c, chosen, n - 1), CosineTo(c, chosen[n]))

redundancy(c, chosen) ==
    IF Len(chosen) > 0 /\ c.hasVector THEN MaxCosine(c, chosen, Len(chosen))
    ELSE FloatZero

\* lambda * relevance - (1 - lambda) * redundancy
mmrScore(c, chosen, lambda) ==
    FloatSub(FloatMul(lambda, c.similarity),
             FloatMul(FloatSub(FloatOne, lambda), redundancy(c, chosen)))

\* an inner loop that replaces the best on an equal score (>= for >)
RECURSIVE ScanBestLastOfTies(_, _, _, _, _, _, _)
ScanBestLastOfTies(remaining, chosen, lambda, i, bestIdx, bestScore, hasBest) ==
    IF i > Len(remaining) THEN bestIdx
    ELSE IF ~hasBest \/ ~SimLess(mmrScore(remaining[i], chosen, lambda), bestScore)
    THEN ScanBestLastOfTies(remaining, chosen, lambda, i + 1, i,
                            mmrScore(remaining[i], chosen, lambda), TRUE)
    ELSE ScanBestLastOfTies(remaining, chosen, lambda, i + 1, bestIdx, bestScore,
                            hasBest)

\* the inner loop from index i on; hasBest is FALSE while bestScore is
\* still -Infinity
RECURSIVE ScanBest(_, _, _, _, _, _, _)
ScanBest(remaining, chosen, lambda, i, bestIdx, bestScore, hasBest) ==
    IF i > Len(remaining) THEN bestIdx
    ELSE IF ~hasBest \/ SimLess(bestScore, mmrScore(remaining[i], chosen, lambda))
    THEN ScanBest(remaining, chosen, lambda, i + 1, i,
                  mmrScore(remaining[i], chosen, lambda), TRUE)
    ELSE ScanBest(remaining, chosen, lambda, i + 1, bestIdx, bestScore, hasBest)

\* a splice that removes nothing
SpliceNone(remaining, idx) == remaining

\* what remaining.splice(idx, 1) leaves
Splice(remaining, idx) ==
    SubSeq(remaining, 1, idx - 1) \o SubSeq(remaining, idx + 1, Len(remaining))

\* the while loop
RECURSIVE MmrLoop(_, _, _, _)
MmrLoop(chosen, remaining, k, lambda) ==
    IF Len(chosen) < k /\ Len(remaining) > 0
    THEN LET bestIdx == ScanBest(remaining, chosen, lambda, 1, 1, FloatZero, FALSE)
         IN  MmrLoop(Append(chosen, remaining[bestIdx]), Splice(remaining, bestIdx),
                     k, lambda)
    ELSE chosen

mmrSelect(cands, k, lambda) == MmrLoop(<< >>, cands, k, lambda)

----------------------------------------------------------------------------
(* The MMR specification: a pool, k and lambda, then mmrSelect.            *)

\* --mmrLambda: 0, 1/2, 3/4 (the default) and 1
Lambdas == {Round(0, 1), Round(1, 2), Round(3, 4), Round(1, 1)}

\* what a pool item has besides its chunk id: a similarity, and a vector
\* or none
PoolContents ==
    { [similarity |-> sm, hasVector |-> v[1], vector |-> v[2]] :
        sm \in {Round(1, 1), Round(3, 4)},
        v \in {<<FALSE, << >>>>, <<TRUE, <<1, 0>>>>, <<TRUE, <<1, 1>>>>} }

\* item i of the pool has chunk id i
PoolItem(i, content) ==
    [id |-> i, similarity |-> content.similarity, hasVector |-> content.hasVector,
     vector |-> content.vector]

Pools ==
    UNION { { [i \in 1..n |-> PoolItem(i, f[i])] : f \in [1..n -> PoolContents] } :
            n \in 0..MaxPool }

InitMmr ==
    /\ pc = "input"
    /\ AuxIdle
    /\ candidates \in Pools
    /\ \E k \in 0..(MaxPool + 1), lambda \in Lambdas : opts = [k |-> k, lambda |-> lambda]
    /\ selected = << >>
    /\ rung = "none"
    /\ RouteIdle
    /\ RetrievalIdle
    /\ StoreIdle

Mmr ==
    /\ pc = "input"
    /\ selected' = mmrSelect(candidates, opts.k, opts.lambda)
    /\ pc' = "mmr"
    /\ UNCHANGED <<candidates, opts, rung, routeVars, retVars, stoVars, auxVars>>

NextMmr == Mmr

SpecMmr == InitMmr /\ [][NextMmr]_vars

----------------------------------------------------------------------------
(* The cosine specification: two vectors, then the similarity as the store *)
(* computes it or as the MMR helper of the ask script computes it.         *)

VectorComponents == {-1, 0, 1}

Vectors == UNION { [1..n -> VectorComponents] : n \in 0..MaxDim }

InitCosine ==
    /\ pc = "input"
    /\ AuxIdle
    /\ \E a \in Vectors, b \in Vectors : sim = [NoSim EXCEPT !.a = a, !.b = b]
    /\ request = NoRequest
    /\ writers = << >>
    /\ latest = << >>
    /\ RetrievalIdle
    /\ SelectionIdle
    /\ RouteIdle

StoreCosine ==
    /\ pc = "input"
    /\ sim' = [sim EXCEPT !.value = cosineSimilarity(sim.a, sim.b)]
    /\ pc' = "storeCosine"
    /\ UNCHANGED <<request, writers, latest, retVars, selVars, routeVars, auxVars>>

MmrCosine ==
    /\ pc = "input"
    /\ sim' = [sim EXCEPT !.value = cosine(sim.a, sim.b)]
    /\ pc' = "mmrCosine"
    /\ UNCHANGED <<request, writers, latest, retVars, selVars, routeVars, auxVars>>

NextCosine == StoreCosine \/ MmrCosine

SpecCosine == InitCosine /\ [][NextCosine]_vars

----------------------------------------------------------------------------
(* Properties of the search.                                               *)

\* the call passes the two early returns
SearchRuns == request.collections # {} /\ request.topK > 0

RequestFilter == IF request.hasFilter THEN request.filter ELSE NoFilter

\* the scan positions of the rows that pass the collection and filter checks
PassingRows ==
    {k \in 1..Len(store) :
        /\ store[k].collection \in request.collections
        /\ RowPasses(store[k], RequestFilter)}

RowSimilarity(k) == Similarity(request.queryVector, store[k].vector)

\* C14: a search that runs returns min(topK, m) of the m passing rows, each
\* once and with its similarity to the query vector, in descending
\* similarity with equal similarities in scan order, and no passing row
\* left out ranks before a returned one.
C14_SearchTopK ==
    (pc = "search" /\ SearchRuns) =>
        /\ Len(retrieved) = Min(request.topK, Cardinality(PassingRows))
        /\ \A i \in 1..Len(retrieved) :
              /\ ScanPosition(retrieved[i]) \in PassingRows
              /\ retrieved[i].similarity = RowSimilarity(ScanPosition(retrieved[i]))
        /\ \A i \in 1..Len(retrieved) : \A j \in 1..Len(retrieved) :
              i < j =>
                /\ ScanPosition(retrieved[i]) # ScanPosition(retrieved[j])
                /\ ~SimLess(retrieved[i].similarity, retrieved[j].similarity)
                /\ SameSimilarity(retrieved[i].similarity, retrieved[j].similarity)
                      => ScanPosition(retrieved[i]) < ScanPosition(retrieved[j])
        /\ \A k \in PassingRows \ {ScanPosition(retrieved[i]) : i \in 1..Len(retrieved)} :
              \A i \in 1..Len(retrieved) :
                /\ ~SimLess(retrieved[i].similarity, RowSimilarity(k))
                /\ SameSimilarity(retrieved[i].similarity, RowSimilarity(k))
                      => ScanPosition(retrieved[i]) < k

\* topK cuts the list between two rows of equal similarity, and a row of
\* lower similarity scanned first stands behind one scanned later
C14_Witness ==
    /\ pc = "search"
    /\ SearchRuns
    /\ Len(retrieved) = 2
    /\ Cardinality(PassingRows) = 3
    /\ SimLess(retrieved[2].similarity, retrieved[1].similarity)
    /\ ScanPosition(retrieved[1]) > ScanPosition(retrieved[2])
    /\ \E k \in PassingRows :
          /\ k > ScanPosition(retrieved[2])
          /\ SameSimilarity(RowSimilarity(k), retrieved[2].similarity)

\* C15: a search with an empty collections list or with topK <= 0 returns
\* the empty sequence.
C15_EmptyOnNoCollectionsOrTopK ==
    (pc = "search" /\ ~SearchRuns) => retrieved = << >>

\* rows of the table would pass, and the call returns nothing because topK
\* is negative; likewise for an empty collections list
C15_Witness ==
    /\ pc = "search"
    /\ request.topK < 0
    /\ request.collections # {}
    /\ PassingRows # {}
    /\ retrieved = << >>

\* C16: every returned item is a row of a requested collection, of an
\* allowed source type when the allow-list is given and non-empty, with a
\* normalized path that starts with the normalized prefix when one is
\* given; and a row that satisfies the three is left out only when topK
\* rows that satisfy them and rank before it are returned.
C16_FilterBeforeTruncation ==
    (pc = "search" /\ SearchRuns) =>
        LET f == RequestFilter
            Matches(row) ==
                /\ row.collection \in request.collections
                /\ (f.hasTypes /\ f.allowedSourceTypes # << >>) =>
                      row.sourceType \in {f.allowedSourceTypes[i] :
                                            i \in 1..Len(f.allowedSourceTypes)}
                /\ f.hasPrefix =>
                      StartsWith(normalizePath(row.sourcePath),
                                 normalizePath(f.sourcePathPrefix))
            returned == {ScanPosition(retrieved[i]) : i \in 1..Len(retrieved)}
        IN  /\ \A k \in returned : Matches(store[k])
            /\ \A k \in 1..Len(store) :
                  (Matches(store[k]) /\ k \notin returned) =>
                      /\ Len(retrieved) = request.topK
                      /\ \A i \in 1..Len(retrieved) :
                            ~SimLess(retrieved[i].similarity, RowSimilarity(k))

\* a row of higher similarity fails the type filter and the prefix filter
\* applies after normalization of both sides; the matching rows fill topK
C16_Witness ==
    /\ pc = "search"
    /\ SearchRuns
    /\ request.hasFilter
    /\ request.filter.allowedSourceTypes = <<"markdown">>
    /\ request.filter.hasPrefix
    /\ request.filter.sourcePathPrefix = <<".", "\\", "d">>
    /\ Len(retrieved) = request.topK
    /\ \E i \in 1..Len(retrieved) : retrieved[i].sourcePath = PathBackslashDC
    /\ \E k \in 1..Len(store) :
          /\ store[k].collection \in request.collections
          /\ store[k].sourceType = "code"
          /\ \A i \in 1..Len(retrieved) :
                SimLess(retrieved[i].similarity, RowSimilarity(k))

----------------------------------------------------------------------------
(* Properties of the cosine similarity.                                    *)

Cosines == {"storeCosine", "mmrCosine"}

\* the helper that computed sim.value, called on x and y
CosineOf(x, y) == IF pc = "storeCosine" THEN cosineSimilarity(x, y) ELSE cosine(x, y)

AllZero(v) == \A i \in 1..Len(v) : v[i] = 0

\* C17 as stated: the similarity returned for (a, b) equals the one returned
\* for (b, a), is at least -1 and at most 1, and is 0 when a or b is
\* all-zero.
C17_CosineSymmetricBoundedZero ==
    pc \in Cosines =>
        /\ sim.value = CosineOf(sim.b, sim.a)
        /\ ~SimLess(FloatOne, sim.value)
        /\ ~SimLess(sim.value, Round(-1, 1))
        /\ (AllZero(sim.a) \/ AllZero(sim.b)) => sim.value = FloatZero

----------------------------------------------------------------------------
(* Properties of the upsert.                                               *)

\* the row that the most recent committed upsert of chunk id i wrote
LatestRow(i) == StoredRow(latest[i].collection, latest[i].item)

UpsertedIds == {i \in ChunkIds : latest[i].upserted}

SearchAll(tbl) ==
    search(tbl, {Collection, OtherCollection}, QueryVector, OverFetch, NoFilter, TRUE)

\* C18: the table holds exactly one row per chunk id ever upserted, with the
\* collection, text, metadata and vector of the most recent upsert of the
\* id; and a batch upserted a second time leaves the table and the search
\* results as they were after the first time.
C18_UpsertIdempotent ==
    /\ \A k \in 1..Len(store) : \A l \in 1..Len(store) :
          k # l => store[k].id # store[l].id
    /\ {store[k].id : k \in 1..Len(store)} = UpsertedIds
    /\ \A k \in 1..Len(store) : store[k] = LatestRow(store[k].id)
    /\ \A p \in UpsertParams :
          LET once == upsertEmbeddedChunks(store, p.collection, p.items)
              twice == upsertEmbeddedChunks(once, p.collection, p.items)
          IN  /\ twice = once
              /\ SearchAll(twice) = SearchAll(once)

\* both ids were upserted more than once, the first row last by a batch
\* for the other collection
C18_Witness ==
    /\ pc = "searchUpserted"
    /\ Len(retrieved) = 2
    /\ Len(store) = 2
    /\ \A i \in ChunkIds : latest[i].upserted /\ latest[i].again
    /\ store[1].collection = OtherCollection
    /\ store[2].collection = Collection

\* C19: at every moment the committed table holds, for each chunk id, the
\* whole row of one committed upsert, and a search returns exactly the rows
\* of the committed batches for its collections: every item comes with the
\* text, metadata and vector of the most recent committed upsert of its id,
\* and no row that an open transaction has run shows.
C19_ReadersSeeCommittedBatches ==
    /\ \A k \in 1..Len(store) :
          /\ latest[store[k].id].upserted
          /\ store[k] = LatestRow(store[k].id)
    /\ pc = "read" =>
          /\ Ids(retrieved) =
                {i \in UpsertedIds : latest[i].collection \in request.collections}
          /\ \A j \in 1..Len(retrieved) :
                LET row == LatestRow(retrieved[j].id)
                IN  /\ retrieved[j].text = row.text
                    /\ retrieved[j].vector = row.vector
                    /\ retrieved[j].sourcePath = row.sourcePath
                    /\ retrieved[j].sourceType = row.sourceType

\* a search runs while a transaction has run one item of two and would
\* change what the search returns
C19_Witness ==
    /\ pc = "read"
    /\ retrieved # << >>
    /\ \E w \in Writers :
          /\ writers[w].phase = "open"
          /\ writers[w].next = 2
          /\ Len(writers[w].items) = 2
          /\ SearchAll(writers[w].work) # SearchAll(store)

----------------------------------------------------------------------------
(* Properties of the MMR helper.                                           *)

\* C20: mmrSelect returns min(k, |candidates|) items, each of them the
\* candidate at some position of the input, and no position twice.
C20_MmrLengthAndMembership ==
    pc = "mmr" =>
        /\ Len(selected) = Min(opts.k, Len(candidates))
        /\ \A i \in 1..Len(selected) :
              /\ selected[i].id \in 1..Len(candidates)
              /\ selected[i] = candidates[selected[i].id]
        /\ \A i \in 1..Len(selected) : \A j \in 1..Len(selected) :
              i # j => selected[i].id # selected[j].id

\* fewer items asked for than the pool holds, and the second pick is
\* not the second item of the pool
C20_Witness ==
    /\ pc = "mmr"
    /\ opts.k = 2
    /\ Len(candidates) = 3
    /\ selected[1].id = 1
    /\ selected[2].id = 3

\* the items selected before step j
SelectedBefore(j) == SubSeq(selected, 1, j - 1)

\* the positions of the pool still remaining at step j
RemainingAt(j) ==
    {p \in 1..Len(candidates) : \A i \in 1..(j - 1) : selected[i].id # p}

\* the cosines of c to the items selected so far, 0 for an item without
\* a vector
CosinesTo(c, chosen) == {CosineTo(c, chosen[i]) : i \in 1..Len(chosen)}

\* 0 when nothing is selected or c has no vector, else the greatest cosine
MaxRedundancy(c, chosen) ==
    IF chosen = << >> \/ ~c.hasVector THEN FloatZero
    ELSE CHOOSE m \in CosinesTo(c, chosen) :
             \A x \in CosinesTo(c, chosen) : ~SimLess(m, x)

\* lambda * similarity - (1 - lambda) * redundancy, in the code's arithmetic
MarginalScore(c, chosen) ==
    FloatSub(FloatMul(opts.lambda, c.similarity),
             FloatMul(FloatSub(FloatOne, opts.lambda), MaxRedundancy(c, chosen)))

\* C21: at every step the selected item is a remaining candidate whose
\* score lambda * similarity - (1 - lambda) * redundancy is the greatest
\* among the remaining ones, and the earliest in input order among those
\* that reach this score.
C21_StepMaximizesEarliestOnTies ==
    pc = "mmr" =>
        \A j \in 1..Len(selected) :
            /\ selected[j].id \in RemainingAt(j)
            /\ \A p \in RemainingAt(j) :
                  /\ ~SimLess(MarginalScore(selected[j], SelectedBefore(j)),
                              MarginalScore(candidates[p], SelectedBefore(j)))
                  /\ MarginalScore(candidates[p], SelectedBefore(j))
                         = MarginalScore(selected[j], SelectedBefore(j))
                       => selected[j].id <= p

\* at the second step two remaining items tie for the greatest score, with
\* a non-zero redundancy, and the earlier one is selected
C21_Witness ==
    /\ pc = "mmr"
    /\ Len(selected) >= 2
    /\ \E p \in RemainingAt(2) :
          /\ p > selected[2].id
          /\ MarginalScore(candidates[p], SelectedBefore(2))
                = MarginalScore(selected[2], SelectedBefore(2))
          /\ MaxRedundancy(candidates[p], SelectedBefore(2)) # FloatZero

----------------------------------------------------------------------------
(* The main program of the ask script: the argument check, the embedding   *)
(* of the question, routed retrieval, the candidates for the selection     *)
(* (with or without MMR) and the selection ladder.  opts holds the command *)
(* line options; --collection is always given.                             *)

MaxAskRows == 2

\* the defaults of --maxPerFile, --mmrLambda and --minSim (with --mmr)
DefaultMaxPerFile == 2

DefaultLambda == Round(3, 4)

DefaultMinSim == Round(11, 20)

\* a --minSim above every similarity
HighMinSim == Round(2, 1)

\* const candidatePoolSize = Math.max(retrievalTopK, maxChunks * 4)
candidatePoolSize(retrievalTopK, maxChunks) == Max(retrievalTopK, maxChunks * 4)

\* retrievedRaw.filter((c) => c.similarity >= minSim)
MmrPool(retrievedRaw, minSim) ==
    SelectSeq(retrievedRaw, LAMBDA c : ~SimLess(c.similarity, minSim))

\* the MMR list, even when it is empty
MmrOnly(mmrChosen, retrievedRaw) == mmrChosen

\* mmrChosen.length > 0 ? mmrChosen : retrievedRaw
MmrOrRetrieved(mmrChosen, retrievedRaw) ==
    IF Len(mmrChosen) > 0 THEN mmrChosen ELSE retrievedRaw

\* candidatesForSelection of the ask script
candidatesForSelection(retrievedRaw, o, retrievalTopK) ==
    IF o.useMmr
    THEN Slice(MmrOrRetrieved(mmrSelect(MmrPool(retrievedRaw, o.minSim),
                                        Max(candidatePoolSize(retrievalTopK, o.maxChunks),
                                            o.k),
                                        o.mmrLambda),
                              retrievedRaw),
               0, candidatePoolSize(retrievalTopK, o.maxChunks))
    ELSE Slice(retrievedRaw, 0, candidatePoolSize(retrievalTopK, o.maxChunks))

\* the options handed to assembleContextFromCandidates
AssembleOptions(o, p) == [o EXCEPT !.priorityPrefixes = p.prefixes]

AskRowContents ==
    { [collection |-> Collection, sourcePath |-> AdrMigrationsPath, vector |-> v,
       text |-> TextPadded] : v \in RowVectors }
    \cup { [collection |-> Collection, sourcePath |-> NotesPath, vector |-> <<1, 0>>,
            text |-> t] : t \in Texts }
    \cup {[collection |-> Collection, sourcePath |-> RootReadmePath,
           vector |-> <<1, 1>>, text |-> TextShort],
          [collection |-> OtherCollection, sourcePath |-> AdrMigrationsPath,
           vector |-> <<1, 0>>, text |-> TextPadded]}

AskRow(i, content) == [Row(i, content) EXCEPT !.text = content.text]

AskStores ==
    UNION { { [i \in 1..n |-> AskRow(i, f[i])] : f \in [1..n -> AskRowContents] } :
            n \in 0..MaxAskRows }

\* --q: a migrations question, an unrouted one, and the empty string
AskQueries == {MigrationsQuestion, GeneralQuestion, << >>}

\* without --mmr, or with it and a --minSim; --k keeps its default
AskOptions ==
    { [maxChunks |-> mc, maxPerFile |-> DefaultMaxPerFile, minChars |-> m,
       dropStatus |-> TRUE, priorityPrefixes |-> << >>,
       useMmr |-> u[1], minSim |-> u[2], mmrLambda |-> DefaultLambda,
       k |-> Max(mc, 6)] :
        mc \in 0..MaxChunksBound, m \in {SmallMinChars, DefaultMinChars},
        u \in {<<FALSE, FloatZero>>, <<TRUE, FloatZero>>, <<TRUE, DefaultMinSim>>,
               <<TRUE, HighMinSim>>} }

InitAsk ==
    /\ pc = "input"
    /\ AuxIdle
    /\ store \in AskStores
    /\ query \in AskQueries
    /\ topK \in {0, MaxTopK}
    /\ opts \in AskOptions
    /\ plan = NoPlan
    /\ retrieved = << >>
    /\ contrib = << >>
    /\ candidates = << >>
    /\ selected = << >>
    /\ rung = "none"
    /\ StoreIdle

\* if (!q || !collection) { usage; process.exit(1) }
AskUsage ==
    /\ pc = "input"
    /\ query = << >>
    /\ pc' = "usage"
    /\ UNCHANGED <<selVars, routeVars, retVars, stoVars, auxVars>>

\* embed throws, or returns no vector and the script throws
AskEmbedFails ==
    /\ pc = "input"
    /\ query # << >>
    /\ pc' = "embedFailed"
    /\ UNCHANGED <<selVars, routeVars, retVars, stoVars, auxVars>>

\* the question embeds to QueryVector; retrieveWithRouting
AskRetrieved ==
    /\ pc = "input"
    /\ query # << >>
    /\ LET c == [store |-> store, collection |-> Collection,
                 queryVector |-> QueryVector,
                 topK |-> Max(topK, MinRetrievalTopK),
                 includeVectors |-> opts.useMmr]
       IN  Retrieved(inferRoutePlanAsk(query),
                     retrieveWithRouting(c, inferRoutePlanAsk(query).prefixes))
    /\ pc' = "retrieved"
    /\ UNCHANGED <<query, store, topK, selVars, stoVars, auxVars>>

AskCandidates ==
    /\ pc = "retrieved"
    /\ candidates' = candidatesForSelection(retrieved, opts,
                                            Max(topK, MinRetrievalTopK))
    /\ pc' = "candidates"
    /\ UNCHANGED <<opts, selected, rung, routeVars, retVars, stoVars, auxVars>>

Assembled(ladder) ==
    /\ selected' = ladder.selected
    /\ rung' = ladder.rung

AskAssemble ==
    /\ pc = "candidates"
    /\ Assembled(AskLadder(candidates, AssembleOptions(opts, plan)))
    /\ pc' = "assembled"
    /\ UNCHANGED <<candidates, opts, routeVars, retVars, stoVars, auxVars>>

NextAsk == AskUsage \/ AskEmbedFails \/ AskRetrieved \/ AskCandidates \/ AskAssemble

SpecAsk == InitAsk /\ [][NextAsk]_vars

----------------------------------------------------------------------------
(* Properties of the ask script's main program.                            *)

\* the pool the ask script filters out of the retrieved list for MMR
Pool == MmrPool(retrieved, opts.minSim)

PoolSize == candidatePoolSize(Max(topK, MinRetrievalTopK), opts.maxChunks)

EmptyPoolWithMmr == opts.useMmr /\ Pool = << >>

\* C22 as stated: with MMR enabled and an empty filtered pool the selector
\* gets the unfiltered retrieved list cut to the candidate pool size, and
\* the selection is empty only if retrieval returned nothing.
C22_EmptyPoolFallsBack ==
    /\ (pc \in {"candidates", "assembled"} /\ EmptyPoolWithMmr)
          => candidates = Slice(retrieved, 0, PoolSize)
    /\ (pc = "assembled" /\ EmptyPoolWithMmr /\ selected = << >>)
          => retrieved = << >>

\* C22 amended: the same, the selection being empty only if retrieval
\* returned nothing when maxChunks >= 1.
C22_EmptyPoolFallsBackForPositiveMaxChunks ==
    /\ (pc \in {"candidates", "assembled"} /\ EmptyPoolWithMmr)
          => candidates = Slice(retrieved, 0, PoolSize)
    /\ (pc = "assembled" /\ EmptyPoolWithMmr /\ selected = << >>
          /\ opts.maxChunks >= 1)
          => retrieved = << >>

\* every retrieved item is below --minSim, and the selection is made from
\* the retrieved list
C22_Witness ==
    /\ pc = "assembled"
    /\ EmptyPoolWithMmr
    /\ opts.maxChunks >= 1
    /\ Len(retrieved) = 2
    /\ selected # << >>

----------------------------------------------------------------------------
(* The evaluator: for each case of the dataset the question is embedded,   *)
(* retrieved with routing and selected, and the selected sources are       *)
(* matched against the case's mustContain.  A source is its path tokens,   *)
(* then "#" and the section when there is one.                             *)

MaxCases == 2

\* const section = md.sectionPath ? `#${md.sectionPath}` : ""
normalizeSource(r) ==
    IF SectionOrEmpty(r) # << >> THEN r.sourcePath \o <<"#">> \o SectionOrEmpty(r)
    ELSE r.sourcePath

\* s.indexOf(x), counted from 1; 0 when x does not occur
IndexOf(s, x) ==
    IF \E i \in 1..Len(s) : s[i] = x
    THEN CHOOSE i \in 1..Len(s) : s[i] = x /\ \A j \in 1..(i - 1) : s[j] # x
    ELSE 0

toPathOnly(s) ==
    IF IndexOf(s, "#") = 0 THEN s ELSE SubSeq(s, 1, IndexOf(s, "#") - 1)

sourceMatchesNeedle(source, needle) ==
    \/ toPathOnly(source) = toPathOnly(needle)
    \/ StartsWith(toPathOnly(source), toPathOnly(needle))
    \/ Includes(source, needle)

\* a hit test that looks at the k-th source alone
hitAtKthOnly(selectedSources, mustContain, k) ==
    \E n \in 1..Len(mustContain) : \E i \in 1..Len(Slice(selectedSources, k - 1, k)) :
        sourceMatchesNeedle(Slice(selectedSources, k - 1, k)[i], mustContain[n])

hitAtK(selectedSources, mustContain, k) ==
    \E n \in 1..Len(mustContain) : \E i \in 1..Len(Slice(selectedSources, 0, k)) :
        sourceMatchesNeedle(Slice(selectedSources, 0, k)[i], mustContain[n])

\* const ks = [1, 3, 5, 8].filter((x) => x <= maxChunks)
ks(maxChunks) == SelectSeq(<<1, 3, 5, 8>>, LAMBDA x : x <= maxChunks)

KSet(maxChunks) == {ks(maxChunks)[i] : i \in 1..Len(ks(maxChunks))}

\* retrieved.slice(0, Math.max(topK, maxChunks * 4))
candidatePool(retrievedRaw, k, maxChunks) == Slice(retrievedRaw, 0, Max(k, maxChunks * 4))

Sources(sel) == [i \in 1..Len(sel) |-> normalizeSource(sel[i])]

\* hits[k] = (hits[k] ?? 0) + 1 for each k with a hit
CountHits(h, sources, mustContain) ==
    [k \in DOMAIN h |-> IF hitAtK(sources, mustContain, k) THEN h[k] + 1 ELSE h[k]]

AdrIntroNeedle == AdrMigrationsPath \o <<"#">> \o SectionIntro

EvalCases ==
    { [q |-> q, collection |-> Collection, mustContain |-> m] :
        q \in {MigrationsQuestion, GeneralQuestion},
        m \in {<<NotesPath>>, <<AdrIntroNeedle>>} }

EvalCaseLists == UNION { [1..n -> EvalCases] : n \in 0..MaxCases }

EvalRowContents ==
    { [collection |-> Collection, sourcePath |-> AdrMigrationsPath, vector |-> <<1, 1>>,
       hasSection |-> TRUE, sectionPath |-> SectionIntro],
      [collection |-> Collection, sourcePath |-> AdrMigrationsPath, vector |-> <<1, 0>>,
       hasSection |-> FALSE, sectionPath |-> << >>],
      [collection |-> Collection, sourcePath |-> NotesPath, vector |-> <<1, 0>>,
       hasSection |-> FALSE, sectionPath |-> << >>] }

EvalRow(i, content) ==
    [Row(i, content) EXCEPT !.hasSection = content.hasSection,
                            !.sectionPath = content.sectionPath]

EvalStores ==
    UNION { { [i \in 1..n |-> EvalRow(i, f[i])] : f \in [1..n -> EvalRowContents] } :
            n \in 0..MaxAskRows }

\* --maxChunks 0, 1 and 3; the other selection options keep their defaults
EvalOptions ==
    { [maxChunks |-> mc, maxPerFile |-> DefaultMaxPerFile,
       minChars |-> DefaultMinChars, dropStatus |-> TRUE,
       priorityPrefixes |-> << >>] : mc \in {0, 1, 3} }

InitEval ==
    /\ pc = "input"
    /\ cases \in EvalCaseLists
    /\ store \in EvalStores
    /\ topK \in {0, MaxTopK}
    /\ opts \in EvalOptions
    /\ total = 0
    /\ hits = [k \in KSet(opts.maxChunks) |-> 0]
    /\ query = << >>
    /\ plan = NoPlan
    /\ retrieved = << >>
    /\ contrib = << >>
    /\ candidates = << >>
    /\ selected = << >>
    /\ rung = "none"
    /\ StoreIdle
    /\ RenderIdle

\* if (cases.length === 0) process.exit(1)
EvalNoCases ==
    /\ pc = "input"
    /\ cases = << >>
    /\ pc' = "noCases"
    /\ UNCHANGED <<selVars, routeVars, retVars, stoVars, auxVars>>

InLoop == pc \in {"input", "case"} /\ cases # << >>

\* total++, then embed throws: nothing catches it
EvalEmbedThrows ==
    /\ InLoop
    /\ total < Len(cases)
    /\ total' = total + 1
    /\ query' = cases[total + 1].q
    /\ pc' = "crashed"
    /\ UNCHANGED <<plan, selVars, retVars, stoVars, cases, hits, renderVars>>

Selected(pool, ladder, mustContain) ==
    /\ candidates' = pool
    /\ selected' = ladder.selected
    /\ rung' = ladder.rung
    /\ hits' = CountHits(hits, Sources(ladder.selected), mustContain)

\* one pass of the loop over the cases; the question embeds to QueryVector
EvalCase ==
    /\ InLoop
    /\ total < Len(cases)
    /\ total' = total + 1
    /\ query' = cases[total + 1].q
    /\ LET c == [store |-> store, collection |-> cases[total + 1].collection,
                 queryVector |-> QueryVector, topK |-> topK,
                 includeVectors |-> FALSE]
       IN  Retrieved(inferRoutePlanEval(cases[total + 1].q),
                     retrieveWithRouting(c, inferRoutePlanEval(cases[total + 1].q).prefixes))
    /\ Selected(candidatePool(retrieved', topK, opts.maxChunks),
                EvalLadder(candidatePool(retrieved', topK, opts.maxChunks),
                           AssembleOptions(opts, plan')),
                cases[total + 1].mustContain)
    /\ pc' = "case"
    /\ UNCHANGED <<store, topK, opts, stoVars, cases, renderVars>>

\* the loop is over: the results are printed
EvalResults ==
    /\ InLoop
    /\ total = Len(cases)
    /\ pc' = "results"
    /\ UNCHANGED <<selVars, routeVars, retVars, stoVars, auxVars>>

NextEval == EvalNoCases \/ EvalEmbedThrows \/ EvalCase \/ EvalResults

SpecEval == InitEval /\ [][NextEval]_vars

----------------------------------------------------------------------------
(* Properties of the evaluator.                                            *)

\* the hit test of the case just processed
CaseHit(k) == hitAtK(Sources(selected), cases[total].mustContain, k)

\* C23: for the sources selected for a case, a hit at k is a hit at every
\* greater k; and at every point of the run hits[k] <= hits[k'] <= total
\* for k < k'.
C23_HitAtKMonotone ==
    /\ pc = "case" =>
          \A k \in 1..8 : \A k2 \in 1..8 : (k < k2 /\ CaseHit(k)) => CaseHit(k2)
    /\ \A k \in DOMAIN hits :
          /\ hits[k] <= total
          /\ \A k2 \in DOMAIN hits : k < k2 => hits[k] <= hits[k2]

\* a case with a hit in the top 3 and none in the top 1
C23_Witness ==
    /\ pc = "case"
    /\ DOMAIN hits = {1, 3}
    /\ ~CaseHit(1)
    /\ CaseHit(3)
    /\ hits[1] < hits[3]

\* C24: a failing embedding call for one case does not end the run: the
\* evaluator goes on with the remaining cases and prints the results.
C24_EmbedFailureDoesNotAbort == pc # "crashed"

----------------------------------------------------------------------------
(* The migrations scenario, end to end in the ask script.                  *)

\* the chunks of the collection read from apps/docs/app/adr/0001-migrations.md
MigrationChunkIds ==
    {store[i].id : i \in {j \in 1..Len(store) :
        store[j].collection = Collection /\ store[j].sourcePath = AdrMigrationsPath}}

\* the position of chunk id in items, 0 when it is not there
PositionOf(items, id) ==
    IF \E i \in 1..Len(items) : items[i].id = id
    THEN CHOOSE i \in 1..Len(items) : items[i].id = id
    ELSE 0

Unrouted(r) == ~isPrioritySource(r.sourcePath, plan.prefixes)

\* retrieved, and before every retrieved chunk of an unrouted file
AheadOfUnrouted(id) ==
    /\ PositionOf(retrieved, id) > 0
    /\ \A j \in 1..Len(retrieved) :
          Unrouted(retrieved[j]) => PositionOf(retrieved, id) < j

InFirstThreeSelected(id) == PositionOf(selected, id) \in 1..3

MigrationsAssembled == pc = "assembled" /\ query = MigrationsQuestion

FirstOfItsSection(id) ==
    \A j \in 1..(PositionOf(retrieved, id) - 1) :
        DedupKey(retrieved[j]) # DedupKey(retrieved[PositionOf(retrieved, id)])

----------------------------------------------------------------------------
(* Input errors in the ask script.                                         *)

NoRowsInCollection == \A i \in 1..Len(store) : store[i].collection # Collection

\* the run is past the argument check and the embedding did not fail
PastInput == pc \notin {"input", "embedFailed"}

\* C26: for an empty query string, and for a collection without rows, the
\* run ends in no error and the retrieved result set is empty.
C26_InputErrorsGiveEmptyResult ==
    (PastInput /\ (query = << >> \/ NoRowsInCollection)) =>
        /\ pc # "usage"
        /\ retrieved = << >>

----------------------------------------------------------------------------
(* truncateText of the rendering step.  A text is its UTF-16 code units:   *)
(* "a" an ordinary character, " " white space, "H" and "L" the high and    *)
(* the low surrogate of one character outside the basic plane.             *)

MaxUnits == 4

\* String.prototype.trimEnd on code units
RECURSIVE TrimEndUnits(_)
TrimEndUnits(t) ==
    IF t # << >> /\ t[Len(t)] = " " THEN TrimEndUnits(SubSeq(t, 1, Len(t) - 1))
    ELSE t

\* "\n" followed by U+2026, the horizontal ellipsis
ContinuationMarker == <<"newline", "ellipsis">>

\* text.slice(0, maxChars)
SliceUnits(t, n) == Slice(t, 0, n)

truncateText(t, n) ==
    IF Len(t) <= n THEN t
    ELSE TrimEndUnits(SliceUnits(t, n)) \o ContinuationMarker

\* every high surrogate is followed by its low surrogate, and no low
\* surrogate stands alone
WellFormed(t) ==
    /\ \A i \in 1..Len(t) : t[i] = "H" => (i < Len(t) /\ t[i + 1] = "L")
    /\ \A i \in 1..Len(t) : t[i] = "L" => (i > 1 /\ t[i - 1] = "H")

UnitTexts ==
    UNION { {t \in [1..n -> {"a", " ", "H", "L"}] : WellFormed(t)} : n \in 0..MaxUnits }

InitTruncate ==
    /\ pc = "input"
    /\ text \in UnitTexts
    /\ maxChars \in 0..MaxUnits
    /\ rendered = NoText
    /\ EvalIdle
    /\ SelectionIdle
    /\ RouteIdle
    /\ RetrievalIdle
    /\ StoreIdle

Truncate ==
    /\ pc = "input"
    /\ rendered' = truncateText(text, maxChars)
    /\ pc' = "truncated"
    /\ UNCHANGED <<text, maxChars, evalVars, selVars, routeVars, retVars, stoVars>>

NextTruncate == Truncate

SpecTruncate == InitTruncate /\ [][NextTruncate]_vars

----------------------------------------------------------------------------
(* Properties of the rendering truncation.                                 *)

\* the code units of rendered before the continuation marker
KeptLength == Len(rendered) - Len(ContinuationMarker)

\* a cut after n code units falls inside a surrogate pair of the text
SplitsPair(n) == n >= 1 /\ n < Len(text) /\ text[n] = "H" /\ text[n + 1] = "L"

\* C27: a text of at most maxChars code units is rendered unchanged; a
\* longer one as a prefix of at most maxChars code units followed by the
\* continuation marker, the cut never inside a surrogate pair.
C27_TruncationKeepsCharactersWhole ==
    pc = "truncated" =>
        IF Len(text) <= maxChars THEN rendered = text
        ELSE /\ KeptLength \in 0..maxChars
             /\ rendered = SubSeq(text, 1, KeptLength) \o ContinuationMarker
             /\ ~SplitsPair(KeptLength)

----------------------------------------------------------------------------
(* The list the ask script hands to mmrSelect.                             *)

MmrInvoked == pc \in {"candidates", "assembled"} /\ opts.useMmr

SortedBySimilarityDesc(items) ==
    \A i \in 1..Len(items) : \A j \in 1..Len(items) :
        i < j => ~SimLess(items[i].similarity, items[j].similarity)

\* C28: whenever the ask script invokes mmrSelect, the list it passes is
\* sorted by descending similarity and every entry has similarity of at
\* least minSim, for every query and route plan.
C28_MmrInputSortedAndAboveMinSim ==
    MmrInvoked =>
        /\ SortedBySimilarityDesc(Pool)
        /\ \A i \in 1..Len(Pool) : ~SimLess(Pool[i].similarity, opts.minSim)

----------------------------------------------------------------------------
(* The two routers side by side.                                           *)

\* C29: the router of the ask script and the router of the eval script
\* give the same intent and the same prefix list for every query.
C29_RoutersAligned ==
    /\ pc = "askRoute" => plan = inferRoutePlanEval(query)
    /\ pc = "evalRoute" => plan = inferRoutePlanAsk(query)

----------------------------------------------------------------------------
(* Prefix matching in the store and in the selection.                      *)

\* a path that normalizePath leaves as it is; every prefix of a route plan
\* is one
InNormalForm(p) == normalizePath(p) = p

RoutePrefixSearch ==
    /\ pc = "search"
    /\ request.hasFilter
    /\ request.filter.hasPrefix
    /\ InNormalForm(request.filter.sourcePathPrefix)

====
